---- MODULE Spec2Model ----
(***************************************************************************)
(* Model of the submissionUpdater repository: the course scraper           *)
(* (src/scrape.js) and the curriculum comparison tools                     *)
(* (tools/compare_courses.js, prerequisite aware, and                      *)
(* tools/compare_courses_AI.js, plain).                                    *)
(*                                                                         *)
(* JavaScript strings are TLA+ strings; a character is a string of length  *)
(* one.  JavaScript null / undefined is the value NULL.                    *)
(***************************************************************************)
EXTENDS Integers, Sequences, FiniteSets, TLC

(***************************************************************************)
(* String primitives (String.prototype methods and the regular-expression  *)
(* character classes the sources use).                                     *)
(***************************************************************************)
NULL == "<null>"

Ch(s, i) == SubSeq(s, i, i)

CharsOf(s) == {Ch(s, i) : i \in 1..Len(s)}

LowerAlpha == "abcdefghijklmnopqrstuvwxyz"

UpperAlpha == "ABCDEFGHIJKLMNOPQRSTUVWXYZ"

DigitChars == "0123456789"

LowerSet == CharsOf(LowerAlpha)

UpperSet == CharsOf(UpperAlpha)

DigitSet == CharsOf(DigitChars)

\* \s
SpaceSet == {" ", "\t", "\n"}

\* \w
WordSet == LowerSet \cup UpperSet \cup DigitSet \cup {"_"}

IndexIn(c, alpha) == CHOOSE i \in 1..Len(alpha) : Ch(alpha, i) = c

UpperMap == [c \in LowerSet |-> Ch(UpperAlpha, IndexIn(c, LowerAlpha))]

LowerMap == [c \in UpperSet |-> Ch(LowerAlpha, IndexIn(c, UpperAlpha))]

RECURSIVE toUpperCase(_)
toUpperCase(s) ==
  IF s = "" THEN ""
  ELSE (IF Ch(s, 1) \in LowerSet THEN UpperMap[Ch(s, 1)] ELSE Ch(s, 1))
         \o toUpperCase(Tail(s))

RECURSIVE toLowerCase(_)
toLowerCase(s) ==
  IF s = "" THEN ""
  ELSE (IF Ch(s, 1) \in UpperSet THEN LowerMap[Ch(s, 1)] ELSE Ch(s, 1))
         \o toLowerCase(Tail(s))

RECURSIVE trimStart(_)
trimStart(s) ==
  IF s # "" /\ Ch(s, 1) \in SpaceSet THEN trimStart(Tail(s)) ELSE s

RECURSIVE trimEnd(_)
trimEnd(s) ==
  IF s # "" /\ Ch(s, Len(s)) \in SpaceSet
  THEN trimEnd(SubSeq(s, 1, Len(s) - 1)) ELSE s

trim(s) == trimEnd(trimStart(s))

\* String.prototype.includes
includes(s, sub) ==
  \/ sub = ""
  \/ \E i \in 1..(Len(s) - Len(sub) + 1) : SubSeq(s, i, i + Len(sub) - 1) = sub

\* s.startsWith(sub, p - 1), positions counted from 1
StartsAt(s, p, sub) ==
  /\ p + Len(sub) - 1 <= Len(s)
  /\ SubSeq(s, p, p + Len(sub) - 1) = sub

\* number of consecutive characters of s from position p on that lie in set
RECURSIVE RunLen(_, _, _)
RunLen(s, p, set) ==
  IF p <= Len(s) /\ Ch(s, p) \in set THEN 1 + RunLen(s, p + 1, set) ELSE 0

\* number of consecutive characters of s from position p on that lie outside set
RECURSIVE RunLenNot(_, _, _)
RunLenNot(s, p, set) ==
  IF p <= Len(s) /\ Ch(s, p) \notin set THEN 1 + RunLenNot(s, p + 1, set) ELSE 0

\* s.replace(/[set]/g, by)
RECURSIVE replaceEach(_, _, _)
replaceEach(s, set, by) ==
  IF s = "" THEN ""
  ELSE (IF Ch(s, 1) \in set THEN by ELSE Ch(s, 1))
         \o replaceEach(Tail(s), set, by)

\* s.replace(/[set]+/g, by)
RECURSIVE replaceRuns(_, _, _)
replaceRuns(s, set, by) ==
  IF s = "" THEN ""
  ELSE IF Ch(s, 1) \in set
       THEN by \o replaceRuns(SubSeq(s, RunLen(s, 1, set) + 1, Len(s)), set, by)
       ELSE Ch(s, 1) \o replaceRuns(Tail(s), set, by)

\* s.replace(/[^keep]+/g, by)
RECURSIVE replaceRunsNot(_, _, _)
replaceRunsNot(s, keep, by) ==
  IF s = "" THEN ""
  ELSE IF Ch(s, 1) \notin keep
       THEN by \o replaceRunsNot(SubSeq(s, RunLenNot(s, 1, keep) + 1, Len(s)), keep, by)
       ELSE Ch(s, 1) \o replaceRunsNot(Tail(s), keep, by)

\* s.split(/[set]+/) without the empty strings a leading or trailing
\* separator produces (every caller filters them out)
RECURSIVE splitRuns(_, _)
splitRuns(s, set) ==
  IF s = "" THEN <<>>
  ELSE IF Ch(s, 1) \in set
       THEN splitRuns(SubSeq(s, RunLen(s, 1, set) + 1, Len(s)), set)
       ELSE <<SubSeq(s, 1, RunLenNot(s, 1, set))>>
              \o splitRuns(SubSeq(s, RunLenNot(s, 1, set) + 1, Len(s)), set)

\* Array.prototype.join
RECURSIVE join(_, _)
join(seq, sep) ==
  IF seq = <<>> THEN ""
  ELSE IF Len(seq) = 1 THEN seq[1]
       ELSE seq[1] \o sep \o join(Tail(seq), sep)

\* UTF-16 code unit order of the characters that can occur in a normalized
\* prerequisite code
CodeUnitOrder == "-0123456789ABCDEFGHIJKLMNOPQRSTUVWXYZ"

RECURSIVE StrLess(_, _)
StrLess(a, b) ==
  IF b = "" THEN FALSE
  ELSE IF a = "" THEN TRUE
  ELSE IF Ch(a, 1) = Ch(b, 1) THEN StrLess(Tail(a), Tail(b))
  ELSE IndexIn(Ch(a, 1), CodeUnitOrder) < IndexIn(Ch(b, 1), CodeUnitOrder)

\* Array.prototype.sort() with the default comparison
RECURSIVE sort(_)
sort(seq) ==
  IF seq = <<>> THEN <<>>
  ELSE LET rest == sort(Tail(seq))
           k == Cardinality({i \in 1..Len(rest) : StrLess(rest[i], seq[1])})
       IN  SubSeq(rest, 1, k) \o <<seq[1]>> \o SubSeq(rest, k + 1, Len(rest))

\* Number(digits)
RECURSIVE Number(_)
Number(d) ==
  IF d = "" THEN 0
  ELSE 10 * Number(SubSeq(d, 1, Len(d) - 1)) + (IndexIn(Ch(d, Len(d)), DigitChars) - 1)

(***************************************************************************)
(* Record Normalizer (tools/compare_courses.js, tools/compare_courses_AI.js)*)
(***************************************************************************)
\* a JSON number is written as "#" followed by its decimal digits, so that
\* the number 3 and the string "3" stay apart
NumberMark == "#"

\* JavaScript !x for a field that is a string, a number or null
Falsy(x) == x = NULL \/ x = "" \/ x = NumberMark \o "0"

\* String(x)
asString(x) == IF x # "" /\ Ch(x, 1) = NumberMark THEN Tail(x) ELSE x

\* x || ''
OrEmpty(x) == IF x = NULL THEN "" ELSE x

normalizeCode(code) == IF Falsy(code) THEN "" ELSE toUpperCase(trim(code))

normalizeCredits(c) == IF Falsy(c) THEN "" ELSE trim(asString(c))

\* length of the match of /[A-Z]{2,}[-\s]?\d{2,4}/ that starts at position p
\* of s, 0 when there is none
codePatternAt(s, p) ==
  LET L == RunLen(s, p, UpperSet)
      q == p + L
      sep == IF q <= Len(s) /\ Ch(s, q) \in ({"-"} \cup SpaceSet) THEN 1 ELSE 0
      D == RunLen(s, q + sep, DigitSet)
  IN  IF L >= 2 /\ D >= 2 THEN L + sep + (IF D > 4 THEN 4 ELSE D) ELSE 0

\* s.match(codePattern) || [] with the g flag, scanning from position p
RECURSIVE matchCodes(_, _)
matchCodes(s, p) ==
  IF p > Len(s) THEN <<>>
  ELSE LET n == codePatternAt(s, p)
       IN  IF n > 0 THEN <<SubSeq(s, p, p + n - 1)>> \o matchCodes(s, p + n)
           ELSE matchCodes(s, p + 1)

normalizePrereq(p) ==
  IF Falsy(p) THEN ""
  ELSE LET s == toUpperCase(trim(p))
           codes == matchCodes(s, 1)
       IN  join(sort([i \in 1..Len(codes) |-> replaceRuns(codes[i], SpaceSet, "-")]), "|")

\* fingerprint of tools/compare_courses.js
fingerprint(c) ==
  normalizeCode(c.code) \o "|" \o normalizeCredits(c.credits) \o "|"
    \o normalizePrereq(c.prerequisite)

\* faulty variant: the plain engine keeps the prerequisite in the fingerprint
fingerprintAIWithPrereq(c) ==
  join(<<normalizeCode(c.code), normalizeCredits(c.credits),
         normalizePrereq(c.prerequisite)>>, "|")

\* fingerprint of tools/compare_courses_AI.js
fingerprintAI(c) == normalizeCode(c.code) \o "|" \o normalizeCredits(c.credits)

\* faulty variant: the title test is forgotten
isTotalCourseCodeOnly(c) ==
  normalizeCode(c.code) \in {"TOTAL", "GRAND TOTAL"}

isTotalCourse(c) ==
  LET code == normalizeCode(c.code)
      title == toLowerCase(OrEmpty(c.title))
  IN  IF code = "" /\ title = "" THEN FALSE
      ELSE IF code = "TOTAL" \/ code = "GRAND TOTAL" THEN TRUE
      ELSE includes(title, "total")

(***************************************************************************)
(* Term Matcher helpers (tools/compare_courses.js; the copies in           *)
(* tools/compare_courses_AI.js are identical).                             *)
(***************************************************************************)
\* \b between positions q - 1 and q of s
wordBoundary(s, q) ==
  (q - 1 >= 1 /\ Ch(s, q - 1) \in WordSet) # (q <= Len(s) /\ Ch(s, q) \in WordSet)

\* s.startsWith(sub) at position p, ignoring case (the i flag); sub is lower case
StartsAtCI(s, p, sub) ==
  /\ p + Len(sub) - 1 <= Len(s)
  /\ toLowerCase(SubSeq(s, p, p + Len(sub) - 1)) = sub

\* length of the match of /semester\s*[-:]?\s*(\d+)/i at position p as
\* <<whole length, digit count>>, <<0, 0>> when there is none
semesterDigitsAt(s, p) ==
  IF ~StartsAtCI(s, p, "semester") THEN <<0, 0>>
  ELSE LET q == p + 8
           a == RunLen(s, q, SpaceSet)
           sep == IF q + a <= Len(s) /\ Ch(s, q + a) \in {"-", ":"} THEN 1 ELSE 0
           b == RunLen(s, q + a + sep, SpaceSet)
           d == RunLen(s, q + a + sep + b, DigitSet)
       IN  IF d >= 1 THEN <<8 + a + sep + b + d, d>> ELSE <<0, 0>>

\* length of the match of /semester[- ]?(\d+)/i at position p, likewise
semesterDigitsAt2(s, p) ==
  IF ~StartsAtCI(s, p, "semester") THEN <<0, 0>>
  ELSE LET q == p + 8
           sep == IF q <= Len(s) /\ Ch(s, q) \in {"-", " "} THEN 1 ELSE 0
           d == RunLen(s, q + sep, DigitSet)
       IN  IF d >= 1 THEN <<8 + sep + d, d>>
           ELSE <<0, 0>>

\* semesterNumber(name): <<n>> for the number n, <<>> for null
semesterNumber(name) ==
  IF Falsy(name) THEN <<>>
  ELSE LET hits == {p \in 1..Len(name) : semesterDigitsAt(name, p)[1] > 0}
           hits2 == {p \in 1..Len(name) : semesterDigitsAt2(name, p)[1] > 0}
           first(H) == CHOOSE p \in H : \A o \in H : p <= o
           digits(p, m) == SubSeq(name, p + m[1] - m[2], p + m[1] - 1)
       IN  IF hits # {}
           THEN <<Number(digits(first(hits), semesterDigitsAt(name, first(hits))))>>
           ELSE IF hits2 # {}
           THEN <<Number(digits(first(hits2), semesterDigitsAt2(name, first(hits2))))>>
           ELSE <<>>

romanToInt(r) ==
  LET m == toUpperCase(r)
  IN  CASE m = "I" -> "1"
        [] m = "II" -> "2"
        [] m = "III" -> "3"
        [] m = "IV" -> "4"
        [] m = "V" -> "5"
        [] OTHER -> m

\* the alternatives of (i{1,3}|iv|v) in the order the regular expression tries them
RomanAlternatives == <<"iii", "ii", "i", "iv", "v">>

\* length of the match of /(i{1,3}|iv|v)\b/i at position p, 0 when none
romanAt(s, p) ==
  LET ok == {a \in 1..Len(RomanAlternatives) :
               /\ StartsAtCI(s, p, RomanAlternatives[a])
               /\ wordBoundary(s, p + Len(RomanAlternatives[a]))}
  IN  IF ok = {} THEN 0
      ELSE Len(RomanAlternatives[CHOOSE a \in ok : \A o \in ok : a <= o])

\* s.replace(/\b(?:semester)\s+(i{1,3}|iv|v)\b/gi, (m, r) => 'semester ' + romanToInt(r))
RECURSIVE replaceSemesterRoman(_, _)
replaceSemesterRoman(s, p) ==
  IF p > Len(s) THEN ""
  ELSE LET sp == RunLen(s, p + 8, SpaceSet)
           n == IF wordBoundary(s, p) /\ StartsAtCI(s, p, "semester") /\ sp >= 1
                THEN romanAt(s, p + 8 + sp) ELSE 0
       IN  IF n > 0
           THEN "semester " \o romanToInt(SubSeq(s, p + 8 + sp, p + 8 + sp + n - 1))
                  \o replaceSemesterRoman(s, p + 8 + sp + n)
           ELSE Ch(s, p) \o replaceSemesterRoman(s, p + 1)

\* s.replace(/\b(i{1,3}|iv|v)\b/gi, (m, r) => romanToInt(r))
RECURSIVE replaceRoman(_, _)
replaceRoman(s, p) ==
  IF p > Len(s) THEN ""
  ELSE LET n == IF wordBoundary(s, p) THEN romanAt(s, p) ELSE 0
       IN  IF n > 0
           THEN romanToInt(SubSeq(s, p, p + n - 1)) \o replaceRoman(s, p + n)
           ELSE Ch(s, p) \o replaceRoman(s, p + 1)

\* length of the match of /pre\s*-?\s*medical/ at position p, 0 when none
preMedicalAt(s, p) ==
  IF ~StartsAt(s, p, "pre") THEN 0
  ELSE LET q == p + 3
           a == RunLen(s, q, SpaceSet)
           hy == IF q + a <= Len(s) /\ Ch(s, q + a) = "-" THEN 1 ELSE 0
           b == RunLen(s, q + a + hy, SpaceSet)
       IN  IF StartsAt(s, q + a + hy + b, "medical") THEN 3 + a + hy + b + 7 ELSE 0

\* s.replace(/pre\s*-?\s*medical/g, 'pre medical')
RECURSIVE replacePreMedical(_, _)
replacePreMedical(s, p) ==
  IF p > Len(s) THEN ""
  ELSE LET n == preMedicalAt(s, p)
       IN  IF n > 0 THEN "pre medical" \o replacePreMedical(s, p + n)
           ELSE Ch(s, p) \o replacePreMedical(s, p + 1)

\* [-–—]; the model's names hold no en or em dash
DashSet == {"-"}

PunctSet == {"(", ")", ",", ".", ":"}

\* faulty variant: Roman numerals are left as they are
normalizeSemKeyNoRoman(name) ==
  IF Falsy(name) THEN ""
  ELSE replacePreMedical(
         trim(replaceRuns(replaceEach(replaceEach(toLowerCase(name), DashSet, " "),
                                      PunctSet, " "), SpaceSet, " ")), 1)

normalizeSemKey(name) ==
  IF Falsy(name) THEN ""
  ELSE LET s1 == toLowerCase(name)
           s2 == replaceEach(s1, DashSet, " ")
           s3 == replaceEach(s2, PunctSet, " ")
           s4 == trim(replaceRuns(s3, SpaceSet, " "))
           s5 == replaceSemesterRoman(s4, 1)
           s6 == replaceRoman(s5, 1)
       IN  replacePreMedical(s6, 1)

(***************************************************************************)
(* The course rows of the model, and the normalizer applied to them.  The  *)
(* tables hold the values of fingerprint, isTotalCourse and pairOutcome on *)
(* the rows of the model, so that each is computed once.                   *)
(***************************************************************************)
Course(serial, code, title, credits, prerequisite) ==
  [serial |-> serial, code |-> code, title |-> title, credits |-> credits,
   prerequisite |-> prerequisite]

\* the course rows the catalogs are drawn from
CourseUniverse ==
  { Course("1", "CS101", "Intro to Programming", "3", NULL),
    Course("1", "CS110", "Introduction to Programming", "3", NULL),
    Course("2", " cs101", "Programming", "3 ", NULL),
    Course("1", "CS101", "Intro to Programming", "3", "MT 100"),
    Course("3", "MT100", "Calculus I", "3+1", NULL),
    Course(NULL, "PH100", NULL, "3", NULL),
    Course(NULL, NULL, "Total", "18", NULL),
    Course(NULL, "Grand Total", NULL, "3", NULL) }

\* a course of another subject with the credits of the programming courses
OtherSubject == Course("4", "MA200", "Linear Algebra", "3", NULL)

\* the first course of CourseUniverse with a lab hour
WithLab == Course("1", "CS101", "Intro to Programming", "3+1", NULL)

\* the texts of the prerequisite column: no text, one code, a code twice,
\* two codes in either order, codes in prose, a code written three ways
PrereqTexts ==
  { NULL, "None", "CS101", "cs101", "CS101, CS101", "CS101 and MT100", "MT100, CS101",
    "Pre-requisite: mt100 & cs101", "MT 100", "MT-100", "MT100" }

\* one course with each of the prerequisite texts
PrereqCourse(text) == Course("1", "CS201", "Data Structures", "3", text)

\* a course without a title, the same course with a title and a
\* prerequisite, and a course whose title is the empty string
NoTitle == Course(NULL, "PH100", NULL, "3", NULL)

TitledAfterCalculus == Course("2", "PH100", "Physics", "3", "MT 100")

BlankTitle == Course("5", "CH100", "", "3", NULL)

\* the courses of the terms compared for their titles
TitleUniverse == {NoTitle, TitledAfterCalculus, BlankTitle, OtherSubject, WithLab}

KnownCourses ==
  CourseUniverse \cup {OtherSubject, WithLab} \cup {PrereqCourse(t) : t \in PrereqTexts}
    \cup TitleUniverse

courseTable ==
  [c \in KnownCourses |->
     [fp |-> fingerprint(c), fpAI |-> fingerprintAI(c), total |-> isTotalCourse(c)]]

rowOf(c) == courseTable[c]

\* fingerprint(c) of the engine in use
keyOf(c, prereqAware) == IF prereqAware THEN rowOf(c).fp ELSE rowOf(c).fpAI

totalOf(c) == rowOf(c).total

(***************************************************************************)
(* Reconciliation Engine: compareSemesters.  A JavaScript Map is the       *)
(* sequence of its entries in insertion order.                             *)
(***************************************************************************)
HasKey(m, k) == \E i \in 1..Len(m) : m[i].key = k

Lookup(m, k) == m[CHOOSE i \in 1..Len(m) : m[i].key = k]

\* one iteration of the loop of makeCountMap; prereqAware selects the
\* fingerprint of the engine
countStep(m, c, prereqAware) ==
  IF totalOf(c) THEN m
  ELSE LET key == keyOf(c, prereqAware)
       IN  IF HasKey(m, key)
           THEN [i \in 1..Len(m) |->
                   IF m[i].key = key THEN [m[i] EXCEPT !.count = @ + 1] ELSE m[i]]
           ELSE Append(m, [key |-> key, count |-> 1, sample |-> c])

RECURSIVE makeCountMapFrom(_, _, _)
makeCountMapFrom(m, arr, prereqAware) ==
  IF arr = <<>> THEN m
  ELSE makeCountMapFrom(countStep(m, Head(arr), prereqAware), Tail(arr), prereqAware)

makeCountMap(arr, prereqAware) == makeCountMapFrom(<<>>, arr, prereqAware)

\* the elements of seq that satisfy the test, in order
RECURSIVE SelectIdx(_, _)
SelectIdx(seq, keep) ==
  IF seq = <<>> THEN <<>>
  ELSE LET n == Len(seq)
           front == SelectIdx(SubSeq(seq, 1, n - 1), keep)
       IN  IF n \in keep THEN Append(front, seq[n]) ELSE front

missingListOf(fMap, vMap) ==
  SelectIdx(vMap, {i \in 1..Len(vMap) : ~HasKey(fMap, vMap[i].key)})

\* faulty variant: fetchedCount and validCount are swapped
countMismatchesSwapped(fMap, vMap) ==
  LET hit == SelectIdx(vMap, {i \in 1..Len(vMap) :
                 /\ HasKey(fMap, vMap[i].key)
                 /\ Lookup(fMap, vMap[i].key).count # vMap[i].count})
  IN  [i \in 1..Len(hit) |->
         [type |-> "count-mismatch", course |-> hit[i].sample,
          fetchedCount |-> hit[i].count,
          validCount |-> Lookup(fMap, hit[i].key).count]]

\* faulty variant: the counts are not compared
countMismatchesNoTest(fMap, vMap) ==
  LET hit == SelectIdx(vMap, {i \in 1..Len(vMap) : HasKey(fMap, vMap[i].key)})
  IN  [i \in 1..Len(hit) |->
         [type |-> "count-mismatch", course |-> hit[i].sample,
          fetchedCount |-> Lookup(fMap, hit[i].key).count,
          validCount |-> hit[i].count]]

countMismatchesOf(fMap, vMap) ==
  LET hit == SelectIdx(vMap, {i \in 1..Len(vMap) :
                 /\ HasKey(fMap, vMap[i].key)
                 /\ Lookup(fMap, vMap[i].key).count # vMap[i].count})
  IN  [i \in 1..Len(hit) |->
         [type |-> "count-mismatch", course |-> hit[i].sample,
          fetchedCount |-> Lookup(fMap, hit[i].key).count,
          validCount |-> hit[i].count]]

\* faulty variant: the first fingerprint of the live map is never an extra
extraListButFirst(fMap, vMap) ==
  SelectIdx(fMap, {i \in 2..Len(fMap) : ~HasKey(vMap, fMap[i].key)})

extraListOf(fMap, vMap) ==
  SelectIdx(fMap, {i \in 1..Len(fMap) : ~HasKey(vMap, fMap[i].key)})

\* a trailing "s" is dropped from a token
stripS(w) == IF w # "" /\ Ch(w, Len(w)) = "s" THEN SubSeq(w, 1, Len(w) - 1) ELSE w

stripAll(toks) == [i \in 1..Len(toks) |-> stripS(toks[i])]

MinWordLen == 3

longOnes(toks) == SelectIdx(toks, {i \in 1..Len(toks) : Len(toks[i]) >= MinWordLen})

\* [A-Za-z0-9]: the characters that [\W_] does not match
AlnumSet == WordSet \ {"_"}

\* words(s): lower case, every run of [\W_] becomes one blank, split on
\* blanks, strip a trailing "s", keep the tokens longer than two characters
words(s) ==
  longOnes(stripAll(splitRuns(replaceRunsNot(toLowerCase(OrEmpty(s)), AlnumSet, " "),
                              SpaceSet)))

Range(seq) == {seq[i] : i \in 1..Len(seq)}

\* the fraction <<intersection, union>> of two token sets; 0/1 when one is empty
jaccardOfSets(A, B) ==
  IF A = {} \/ B = {} THEN <<0, 1>>
  ELSE <<Cardinality(A \cap B), Cardinality(A \cup B)>>

jaccard(a, b) == jaccardOfSets(Range(words(a)), Range(words(b)))

initials(w) == [i \in 1..Len(w) |-> Ch(w[i], 1)]

acronym(s) == toUpperCase(join(initials(words(s)), ""))

\* sim >= 0.15, in hundredths
SimThresholdPct == 15

\* faulty variant: an empty title is a substring of no title
similarityTestNonEmpty(sim, acrM, acrE, lm, le, wm, we) ==
  \/ 100 * sim[1] >= SimThresholdPct * sim[2]
  \/ (acrM # "" /\ acrE # "" /\ (includes(acrM, acrE) \/ includes(acrE, acrM)))
  \/ (lm # "" /\ le # "" /\ (includes(lm, le) \/ includes(le, lm)))
  \/ Range(wm) \cap Range(we) # {}

\* the condition of the code-mismatch branch on the values it is computed from
similarityTest(sim, acrM, acrE, lm, le, wm, we) ==
  \/ 100 * sim[1] >= SimThresholdPct * sim[2]
  \/ (acrM # "" /\ acrE # "" /\ (includes(acrM, acrE) \/ includes(acrE, acrM)))
  \/ includes(lm, le) \/ includes(le, lm)
  \/ Range(wm) \cap Range(we) # {}

\* sim, acrM, acrE, subs and tokenIntersection of the inner loop
titlesSimilar(mTitle, eTitle) ==
  similarityTest(jaccard(mTitle, eTitle), acronym(mTitle), acronym(eTitle),
                 toLowerCase(OrEmpty(mTitle)), toLowerCase(OrEmpty(eTitle)),
                 words(mTitle), words(eTitle))

\* faulty variant: the inner loop does not test the credits
pairOutcomeAnyCredits(m, e, prereqAware) ==
  IF /\ prereqAware
     /\ normalizeCode(m.code) = normalizeCode(e.code)
     /\ normalizePrereq(m.prerequisite) # normalizePrereq(e.prerequisite)
  THEN "prerequisite-mismatch"
  ELSE IF titlesSimilar(m.title, e.title) THEN "code-mismatch"
  ELSE "skip"

\* faulty variant: the prerequisites are not looked at
pairOutcomeNoPrereq(m, e, prereqAware) ==
  IF normalizeCredits(m.credits) # normalizeCredits(e.credits) THEN "skip"
  ELSE IF titlesSimilar(m.title, e.title) THEN "code-mismatch"
  ELSE "skip"

\* what the body of the inner loop does with missing sample m and extra
\* sample e: "skip" (continue), or the type of the pair it pushes
pairOutcome(m, e, prereqAware) ==
  IF normalizeCredits(m.credits) # normalizeCredits(e.credits) THEN "skip"
  ELSE IF /\ prereqAware
          /\ normalizeCode(m.code) = normalizeCode(e.code)
          /\ normalizePrereq(m.prerequisite) # normalizePrereq(e.prerequisite)
       THEN "prerequisite-mismatch"
  ELSE IF titlesSimilar(m.title, e.title) THEN "code-mismatch"
  ELSE "skip"

pairTable ==
  [m \in KnownCourses |-> [e \in KnownCourses |->
     [aware |-> pairOutcome(m, e, TRUE), plain |-> pairOutcome(m, e, FALSE)]]]

pick(row, prereqAware) == IF prereqAware THEN row.aware ELSE row.plain

outcomeOf(m, e, prereqAware) == pick(pairTable[m][e], prereqAware)

\* outcome of the inner loop body for every (missing i, extra j)
outcomeMatrix(missingList, extraList, prereqAware) ==
  [i \in 1..Len(missingList) |-> [j \in 1..Len(extraList) |->
     outcomeOf(missingList[i].sample, extraList[j].sample, prereqAware)]]

\* faulty variant: the inner loop does not skip the paired extra candidates
RECURSIVE pairFromNoSkip(_, _, _, _, _)
pairFromNoSkip(i, st, missingList, extraList, outcome) ==
  IF i > Len(missingList) THEN st
  ELSE LET hits == {j \in 1..Len(extraList) : outcome[i][j] # "skip"}
           j == IF hits = {} THEN 0 ELSE CHOOSE h \in hits : \A o \in hits : h <= o
           next == IF hits = {} THEN st
                   ELSE [diffs |-> Append(st.diffs,
                                     [type |-> outcome[i][j],
                                      fetched |-> extraList[j].sample,
                                      valid |-> missingList[i].sample]),
                         pairedMissing |-> st.pairedMissing \cup {i},
                         pairedExtra |-> st.pairedExtra \cup {j}]
       IN  pairFromNoSkip(i + 1, next, missingList, extraList, outcome)

\* faulty variant: a missing candidate takes an extra candidate that is
\* already paired, and the earlier pair is undone
RECURSIVE pairFromRetaking(_, _, _, _, _)
pairFromRetaking(i, st, missingList, extraList, outcome) ==
  IF i > Len(missingList) THEN st
  ELSE LET hits == {j \in 1..Len(extraList) : outcome[i][j] # "skip"}
           j == IF hits = {} THEN 0 ELSE CHOOSE h \in hits : \A o \in hits : h <= o
           kept == SelectIdx(st.diffs,
                             {n \in 1..Len(st.diffs) :
                                st.diffs[n].fetched # extraList[j].sample})
           undone == {m \in st.pairedMissing :
                        \E n \in 1..Len(st.diffs) :
                          /\ st.diffs[n].valid = missingList[m].sample
                          /\ st.diffs[n].fetched = extraList[j].sample}
           next == IF hits = {} THEN st
                   ELSE [diffs |-> Append(kept,
                                     [type |-> outcome[i][j],
                                      fetched |-> extraList[j].sample,
                                      valid |-> missingList[i].sample]),
                         pairedMissing |-> (st.pairedMissing \ undone) \cup {i},
                         pairedExtra |-> st.pairedExtra \cup {j}]
       IN  pairFromRetaking(i + 1, next, missingList, extraList, outcome)

\* the pairing loops from outer index i on; st = [diffs, pairedMissing,
\* pairedExtra], outcome = outcomeMatrix of the two lists
RECURSIVE pairFrom(_, _, _, _, _)
pairFrom(i, st, missingList, extraList, outcome) ==
  IF i > Len(missingList) THEN st
  ELSE LET hits == {j \in 1..Len(extraList) :
                      j \notin st.pairedExtra /\ outcome[i][j] # "skip"}
           j == IF hits = {} THEN 0 ELSE CHOOSE h \in hits : \A o \in hits : h <= o
           next == IF hits = {} THEN st
                   ELSE [diffs |-> Append(st.diffs,
                                     [type |-> outcome[i][j],
                                      fetched |-> extraList[j].sample,
                                      valid |-> missingList[i].sample]),
                         pairedMissing |-> st.pairedMissing \cup {i},
                         pairedExtra |-> st.pairedExtra \cup {j}]
       IN  pairFrom(i + 1, next, missingList, extraList, outcome)

\* faulty variant: every remaining candidate is reported with count 1
remainingCountOne(list, paired, type) ==
  [i \in 1..Len(SelectIdx(list, (1..Len(list)) \ paired)) |->
     [type |-> type, count |-> 1,
      course |-> SelectIdx(list, (1..Len(list)) \ paired)[i].sample]]

\* faulty variant: paired candidates are not skipped
remainingAll(list, paired, type) ==
  [i \in 1..Len(list) |->
     [type |-> type, count |-> list[i].count, course |-> list[i].sample]]

remainingOf(list, paired, type) ==
  LET rest == SelectIdx(list, (1..Len(list)) \ paired)
  IN  [i \in 1..Len(rest) |->
         [type |-> type, count |-> rest[i].count, course |-> rest[i].sample]]

\* faulty variant: the count-mismatches are pushed first
assembleCountsFirst(st, missingList, extraList, countMismatches) ==
  countMismatches
    \o st.diffs
    \o remainingOf(missingList, st.pairedMissing, "missing-in-fetched")
    \o remainingOf(extraList, st.pairedExtra, "extra-in-fetched")

\* the four groups in output order: pairs, remaining missing, remaining
\* extras, count mismatches
assemble(st, missingList, extraList, countMismatches) ==
  st.diffs
    \o remainingOf(missingList, st.pairedMissing, "missing-in-fetched")
    \o remainingOf(extraList, st.pairedExtra, "extra-in-fetched")
    \o countMismatches

\* the pairing loops and the three final loops
compareLists(missingList, extraList, countMismatches, outcome) ==
  assemble(pairFrom(1, [diffs |-> <<>>, pairedMissing |-> {}, pairedExtra |-> {}],
                    missingList, extraList, outcome),
           missingList, extraList, countMismatches)

\* the missing, extra and count-mismatch lists of the two count maps
compareMaps(fMap, vMap, missingList, extraList, prereqAware) ==
  compareLists(missingList, extraList, countMismatchesOf(fMap, vMap),
               outcomeMatrix(missingList, extraList, prereqAware))

compareCountMaps(fMap, vMap, prereqAware) ==
  compareMaps(fMap, vMap, missingListOf(fMap, vMap), extraListOf(fMap, vMap), prereqAware)

compareCore(fetchedCourses, validCourses, prereqAware) ==
  compareCountMaps(makeCountMap(fetchedCourses, prereqAware),
                   makeCountMap(validCourses, prereqAware), prereqAware)

\* tools/compare_courses.js
compareSemesters(fetchedCourses, validCourses) ==
  compareCore(fetchedCourses, validCourses, TRUE)

\* tools/compare_courses_AI.js
compareSemestersAI(fetchedCourses, validCourses) ==
  compareCore(fetchedCourses, validCourses, FALSE)

(***************************************************************************)
(* Structural Extractor (src/scrape.js).  A cell, a list item, a heading   *)
(* or a paragraph is the string its text() is.                             *)
(***************************************************************************)
\* /^\d+$/.test(s)
isDigits(s) == s # "" /\ RunLen(s, 1, DigitSet) = Len(s)

\* x || null for a string
orNull(s) == IF s = "" THEN NULL ELSE s

skipSpace(s, q) == q + RunLen(s, q, SpaceSet)

\* -?\s* from position q on
skipDash(s, q) ==
  IF q <= Len(s) /\ Ch(s, q) = "-" THEN skipSpace(s, q + 1) ELSE q

atMost(n, max) == IF n > max THEN max ELSE n

\* \d{2,4} from position q on: the position after it, 0 when it does not match
codeDigitsEnd(s, q) ==
  IF RunLen(s, q, DigitSet) >= 2 THEN q + atMost(RunLen(s, q, DigitSet), 4) ELSE 0

\* codeRegex /[A-Z]{2,}\s*-?\s*\d{2,4}/ tried at position p: the position
\* after the match, 0 when there is none
codeRegexAt(s, p) ==
  IF RunLen(s, p, UpperSet) >= 2
  THEN codeDigitsEnd(s, skipDash(s, skipSpace(s, p + RunLen(s, p, UpperSet))))
  ELSE 0

\* the leftmost match of codeRegex from position p on as <<start, end>>,
\* end exclusive; <<>> when there is none
RECURSIVE codeRegexFrom(_, _)
codeRegexFrom(s, p) ==
  IF p > Len(s) THEN <<>>
  ELSE IF codeRegexAt(s, p) > 0 THEN <<p, codeRegexAt(s, p)>>
  ELSE codeRegexFrom(s, p + 1)

codeRegexTest(s) == codeRegexFrom(s, 1) # <<>>

\* (?:\.[0-9]+)? from position q on
fractionEnd(s, q) ==
  IF q <= Len(s) /\ Ch(s, q) = "." /\ RunLen(s, q + 1, DigitSet) > 0
  THEN q + 1 + RunLen(s, q + 1, DigitSet) ELSE q

\* [0-9]+(?:\.[0-9]+)? from position n on, which holds a digit
numberEnd(s, n) == fractionEnd(s, n + RunLen(s, n, DigitSet))

\* (?:\s*Cr|\s*credit|\)|$) with the i flag from position q on: the
\* position after it, 0 when no alternative matches
creditsTailEnd(s, q) ==
  IF StartsAtCI(s, skipSpace(s, q), "cr") THEN skipSpace(s, q) + 2
  ELSE IF q <= Len(s) /\ Ch(s, q) = ")" THEN q + 1
  ELSE IF q = Len(s) + 1 THEN q
  ELSE 0

\* a match of creditsRegex from its parts: <<start, start of the number,
\* end of the number, end>>, ends exclusive
creditsMatch(p, n, e, t) == IF t = 0 THEN <<>> ELSE <<p, n, e, t>>

creditsNumber(s, p, n) ==
  IF RunLen(s, n, DigitSet) = 0 THEN <<>>
  ELSE creditsMatch(p, n, numberEnd(s, n), creditsTailEnd(s, numberEnd(s, n)))

\* creditsRegex /(?:\b|\()([0-9]+(?:\.[0-9]+)?)(?:\s*Cr|\s*credit|\)|$)/i
\* tried at position p
creditsRegexAt(s, p) ==
  IF Ch(s, p) \in DigitSet /\ wordBoundary(s, p) THEN creditsNumber(s, p, p)
  ELSE IF Ch(s, p) = "(" THEN creditsNumber(s, p, p + 1)
  ELSE <<>>

\* the leftmost match of creditsRegex from position p on, <<>> when none
RECURSIVE creditsRegexFrom(_, _)
creditsRegexFrom(s, p) ==
  IF p > Len(s) THEN <<>>
  ELSE IF creditsRegexAt(s, p) # <<>> THEN creditsRegexAt(s, p)
  ELSE creditsRegexFrom(s, p + 1)

RECURSIVE stripLeadingZeros(_)
stripLeadingZeros(d) ==
  IF Len(d) > 1 /\ Ch(d, 1) = "0" THEN stripLeadingZeros(Tail(d)) ELSE d

RECURSIVE stripTrailingZeros(_)
stripTrailingZeros(f) ==
  IF f # "" /\ Ch(f, Len(f)) = "0"
  THEN stripTrailingZeros(SubSeq(f, 1, Len(f) - 1)) ELSE f

withFraction(int, frac) == IF frac = "" THEN int ELSE int \o "." \o frac

\* Number(t) for t = digits or digits.digits
numberOf(t) ==
  NumberMark \o withFraction(stripLeadingZeros(SubSeq(t, 1, RunLen(t, 1, DigitSet))),
               stripTrailingZeros(SubSeq(t, RunLen(t, 1, DigitSet) + 2, Len(t))))

\* s.replace(text, ''): the first occurrence of text is removed
RECURSIVE removeFirst(_, _)
removeFirst(s, text) ==
  IF s = "" \/ text = "" THEN s
  ELSE IF StartsAt(s, 1, text) THEN SubSeq(s, Len(text) + 1, Len(s))
  ELSE Ch(s, 1) \o removeFirst(Tail(s), text)

\* s.replace(/[set]{2,}/g, by)
RECURSIVE replaceLongRuns(_, _, _)
replaceLongRuns(s, set, by) ==
  IF s = "" THEN ""
  ELSE IF RunLen(s, 1, set) >= 2
       THEN by \o replaceLongRuns(SubSeq(s, RunLen(s, 1, set) + 1, Len(s)), set, by)
       ELSE Ch(s, 1) \o replaceLongRuns(Tail(s), set, by)

trimAll(cells) == [i \in 1..Len(cells) |-> trim(cells[i])]

\* .filter(Boolean) on strings
nonEmpty(cells) == SelectIdx(cells, {i \in 1..Len(cells) : cells[i] # ""})

\* cells[i] || '' with i counted from 0
cellAt(cells, i) == IF i + 1 <= Len(cells) THEN cells[i + 1] ELSE ""

\* the positional branch of parseCourseFromCells
cellsByPosition(cells, hasSerial, offset) ==
  [serial |-> IF hasSerial THEN trim(cells[1]) ELSE NULL,
   code |-> orNull(trim(cellAt(cells, offset))),
   title |-> orNull(trim(cellAt(cells, offset + 1))),
   credits |-> orNull(trim(cellAt(cells, offset + 2))),
   prerequisite |-> IF Len(cells) >= offset + 5
                    THEN orNull(trim(cellAt(cells, offset + 4))) ELSE NULL]

\* the code a match of codeRegex in t gives
codeOfMatch(t, m) == trim(replaceRuns(SubSeq(t, m[1], m[2] - 1), SpaceSet, " "))

\* one iteration of the scanning loop on the trimmed cell t
scanCell(st, t) ==
  IF t = "" THEN st
  ELSE IF st.serial = NULL /\ isDigits(t) THEN [st EXCEPT !.serial = t]
  ELSE IF st.code = NULL /\ codeRegexTest(t)
       THEN [st EXCEPT !.code = codeOfMatch(t, codeRegexFrom(t, 1))]
  ELSE IF st.credits = NULL /\ creditsRegexFrom(t, 1) # <<>>
       THEN [st EXCEPT !.credits = SubSeq(t, creditsRegexFrom(t, 1)[2],
                                          creditsRegexFrom(t, 1)[3] - 1)]
  ELSE [st EXCEPT !.remaining = Append(@, t)]

RECURSIVE scanCells(_, _)
scanCells(st, cells) ==
  IF cells = <<>> THEN st ELSE scanCells(scanCell(st, trim(Head(cells))), Tail(cells))

\* the return of the scanning branch of parseCourseFromCells
scanned(st) ==
  [serial |-> st.serial, code |-> st.code,
   title |-> orNull(trim(join(st.remaining, " - "))),
   credits |-> IF st.credits = NULL THEN NULL ELSE numberOf(st.credits),
   prerequisite |-> NULL]

cellsByScanning(cells) ==
  scanned(scanCells([serial |-> NULL, code |-> NULL, credits |-> NULL,
                     remaining |-> <<>>], cells))

cellsWithOffset(cells, hasSerial, offset) ==
  IF Len(cells) >= offset + 3 THEN cellsByPosition(cells, hasSerial, offset)
  ELSE cellsByScanning(cells)

parseCourseFromCells(cells) ==
  cellsWithOffset(cells, isDigits(cellAt(cells, 0)),
                  IF isDigits(cellAt(cells, 0)) THEN 1 ELSE 0)

\* the serial prefix /^\s*(\d+)\s*[.)-]?\s*/ of a trimmed line that starts
\* with a digit: the position after it
serialPrefixEnd(s, q) ==
  IF q <= Len(s) /\ Ch(s, q) \in {".", ")", "-"} THEN skipSpace(s, q + 1) ELSE q

lineSerial(s) ==
  IF RunLen(s, 1, DigitSet) = 0 THEN NULL ELSE SubSeq(s, 1, RunLen(s, 1, DigitSet))

lineRest(s) ==
  IF RunLen(s, 1, DigitSet) = 0 THEN s
  ELSE SubSeq(s, serialPrefixEnd(s, skipSpace(s, 1 + RunLen(s, 1, DigitSet))), Len(s))

\* rest.replace(/[-]+/g, ' ').replace(/\s{2,}/g, ' ').trim()
lineTitle(rest) == trim(replaceLongRuns(replaceRuns(rest, DashSet, " "), SpaceSet, " "))

lineCourse(serial, code, credits, rest) ==
  [serial |-> serial, code |-> code, title |-> orNull(lineTitle(rest)),
   credits |-> credits, prerequisite |-> NULL]

\* m = rest.match(creditsRegex)
lineWithCredits(serial, code, rest, m) ==
  IF m = <<>> THEN lineCourse(serial, code, NULL, rest)
  ELSE lineCourse(serial, code, numberOf(SubSeq(rest, m[2], m[3] - 1)),
                  removeFirst(rest, SubSeq(rest, m[1], m[4] - 1)))

lineAfterCode(serial, code, rest) ==
  lineWithCredits(serial, code, rest, creditsRegexFrom(rest, 1))

\* m = rest.match(codeRegex)
lineWithCode(serial, rest, m) ==
  IF m = <<>> THEN lineAfterCode(serial, NULL, rest)
  ELSE lineAfterCode(serial, codeOfMatch(rest, m),
                     removeFirst(rest, SubSeq(rest, m[1], m[2] - 1)))

lineParts(serial, rest) == lineWithCode(serial, rest, codeRegexFrom(rest, 1))

lineTrimmed(s) == lineParts(lineSerial(s), lineRest(s))

parseCourseFromLine(line) == lineTrimmed(trim(line))

\* /semester/i.test(t)
isSemesterText(t) == includes(toLowerCase(t), "semester")

HeadingTags == {"h1", "h2", "h3", "h4", "h5", "h6"}

isSemesterHeading(b) == b.tag \in HeadingTags /\ isSemesterText(b.text)

\* parsed.code || parsed.title
hasCodeOrTitle(c) == ~Falsy(c.code) \/ ~Falsy(c.title)

keepParsed(cs) == SelectIdx(cs, {i \in 1..Len(cs) : hasCodeOrTitle(cs[i])})

parseAllCells(rows) == [i \in 1..Len(rows) |-> parseCourseFromCells(rows[i])]

parseAllLines(lines) == [i \in 1..Len(lines) |-> parseCourseFromLine(lines[i])]

\* the th and td texts of every tr of a table: the row of the thead, then
\* the rows of the body
tableRows(b) ==
  (IF b.head = <<>> THEN <<>> ELSE <<b.head>>)
    \o [i \in 1..Len(b.rows) |-> b.rows[i].th \o b.rows[i].tds]

filledCols(rows) == [i \in 1..Len(rows) |-> nonEmpty(trimAll(rows[i]))]

atLeast(rows, n) == SelectIdx(rows, {i \in 1..Len(rows) : Len(rows[i]) >= n})

\* the courses Method 1 takes from a table that follows a heading
tableCoursesA(b) == keepParsed(parseAllCells(atLeast(filledCols(tableRows(b)), 2)))

listCourses(b) == keepParsed(parseAllLines(trimAll(b.items)))

hasDigit(line) == \E i \in 1..Len(line) : Ch(line, i) \in DigitSet

candidateLines(lines) ==
  SelectIdx(lines, {i \in 1..Len(lines) : hasDigit(lines[i]) \/ codeRegexTest(lines[i])})

paragraphCourses(b) ==
  keepParsed(parseAllLines(candidateLines(nonEmpty(trimAll(splitRuns(b.text, {"\n", "\r"}))))))

\* what one sibling of a semester heading adds to its courses
blockCourses(b) ==
  IF b.tag = "table" THEN tableCoursesA(b)
  ELSE IF b.tag \in {"ul", "ol"} THEN listCourses(b)
  ELSE IF b.tag \in {"p", "div"} THEN paragraphCourses(b)
  ELSE <<>>

\* the courses of the siblings from position i up to the next semester heading
RECURSIVE sectionCourses(_, _)
sectionCourses(doc, i) ==
  IF i > Len(doc) THEN <<>>
  ELSE IF isSemesterHeading(doc[i]) THEN <<>>
  ELSE blockCourses(doc[i]) \o sectionCourses(doc, i + 1)

dedupKey(c) == OrEmpty(c.code) \o "||" \o OrEmpty(c.title)

\* faulty variant: of the courses of one key the last one is kept
dedupeLast(cs) ==
  SelectIdx(cs, {i \in 1..Len(cs) :
                   \A j \in (i + 1)..Len(cs) : dedupKey(cs[j]) # dedupKey(cs[i])})

\* the courses whose key no earlier course has
dedupe(cs) ==
  SelectIdx(cs, {i \in 1..Len(cs) : \A j \in 1..(i - 1) : dedupKey(cs[j]) # dedupKey(cs[i])})

headingPositions(doc) ==
  SelectIdx([i \in 1..Len(doc) |-> i], {i \in 1..Len(doc) : isSemesterHeading(doc[i])})

semestersAt(doc, pos) ==
  [k \in 1..Len(pos) |->
     [name |-> trim(doc[pos[k]].text),
      courses |-> dedupe(sectionCourses(doc, pos[k] + 1))]]

\* Method 1: explicit semester headings
methodA(doc) == semestersAt(doc, headingPositions(doc))

\* the cells of a body row for Method 2: the th[scope=row] text if it is not
\* empty, then every td
bodyCells(row) == nonEmpty(trimAll(row.th)) \o trimAll(row.tds)

allBodyCells(rows) == [i \in 1..Len(rows) |-> bodyCells(rows[i])]

tableCoursesB(b) == keepParsed(parseAllCells(atLeast(allBodyCells(b.rows), 1)))

\* text of the first th of the thead, '' without one
headText(b) == IF b.head = <<>> THEN "" ELSE trim(b.head[1])

hasName(sems, name) == \E i \in 1..Len(sems) : sems[i].name = name

stepB(sems, b) ==
  IF b.tag # "table" THEN sems
  ELSE IF ~isSemesterText(headText(b)) THEN sems
  ELSE IF hasName(sems, headText(b)) THEN sems
  ELSE Append(sems, [name |-> headText(b), courses |-> dedupe(tableCoursesB(b))])

\* Method 2: tables with a semester name in the thead
RECURSIVE methodB(_, _, _)
methodB(sems, doc, i) ==
  IF i > Len(doc) THEN sems ELSE methodB(stepB(sems, doc[i]), doc, i + 1)

allTrimmed(rows) == [i \in 1..Len(rows) |-> trimAll(rows[i])]

notBlank(rows) == SelectIdx(rows, {i \in 1..Len(rows) : nonEmpty(rows[i]) # <<>>})

isTotalRow(cols) == includes(toLowerCase(join(cols, " ")), "total")

withoutTotals(rows) == SelectIdx(rows, {i \in 1..Len(rows) : ~isTotalRow(rows[i])})

hasTotalRow(rows) == \E i \in 1..Len(rows) : isTotalRow(rows[i])

\* Number.prototype.toString of a natural number
RECURSIVE toString(_)
toString(n) ==
  IF n < 10 THEN Ch(DigitChars, n + 1)
  ELSE toString(n \div 10) \o Ch(DigitChars, (n % 10) + 1)

\* faulty variant: a table needs no Total row to be a term
pushNumberedAnyTable(sems, courses, hasTotal) ==
  IF courses # <<>>
  THEN Append(sems, [name |-> "Semester-" \o toString(Len(sems) + 1),
                     courses |-> dedupe(courses)])
  ELSE sems

pushNumbered(sems, courses, hasTotal) ==
  IF courses # <<>> /\ hasTotal
  THEN Append(sems, [name |-> "Semester-" \o toString(Len(sems) + 1),
                     courses |-> dedupe(courses)])
  ELSE sems

tableC(sems, rows) ==
  pushNumbered(sems, keepParsed(parseAllCells(withoutTotals(rows))), hasTotalRow(rows))

stepC(sems, b) ==
  IF b.tag # "table" THEN sems ELSE tableC(sems, notBlank(allTrimmed(tableRows(b))))

\* Method 3: every table with courses and a Total row, numbered
RECURSIVE methodC(_, _, _)
methodC(sems, doc, i) ==
  IF i > Len(doc) THEN sems ELSE methodC(stepC(sems, doc[i]), doc, i + 1)

\* faulty variant: the numbered tables are added whatever was found before
whenEmptyOrNot(sems, doc) == sems \o methodC(<<>>, doc, 1)

whenEmpty(sems, doc) == IF sems = <<>> THEN methodC(<<>>, doc, 1) ELSE sems

extractSemesters(doc) == whenEmpty(methodB(methodA(doc), doc, 1), doc)

(***************************************************************************)
(* The pages of the model: a page is the sequence of its sibling elements. *)
(***************************************************************************)
Heading(tag, text) ==
  [tag |-> tag, text |-> text, head |-> <<>>, rows |-> <<>>, items |-> <<>>]

\* head: <<>> without a thead, <<text of its th>> with one; a row holds the
\* text of its th[scope=row] (<<>> without one) and of its td cells
Table(head, rows) ==
  [tag |-> "table", text |-> "", head |-> head, rows |-> rows, items |-> <<>>]

Row(th, tds) == [th |-> th, tds |-> tds]

List(tag, items) ==
  [tag |-> tag, text |-> "", head |-> <<>>, rows |-> <<>>, items |-> items]

Para(tag, text) ==
  [tag |-> tag, text |-> text, head |-> <<>>, rows |-> <<>>, items |-> <<>>]

\* semester headings followed by a table, a list and a paragraph
HeadingsPage ==
  << Heading("h2", " Semester 1 "),
     Table(<<>>, << Row(<<>>, <<"1", "CS101", "Intro to Programming", "3">>),
                    Row(<<>>, <<"2", "CS101", "Intro to Programming", "3">>),
                    Row(<<>>, <<"Total", "", "18">>) >>),
     Heading("h3", "Electives"),
     List("ul", <<"1. MT 100 Calculus I (3 Cr)", "2) Project">>),
     Heading("h2", "SEMESTER 2"),
     Para("p", "Core courses\nCS-210 Data Structures 3+1\n 3 PH100 - Physics 4") >>

\* a table whose thead names the semester
TheadPage ==
  << Table(<<"Semester 1">>,
           << Row(<<"1">>, <<"CS101", "Intro to Programming", "3", "SDG 4", "MT100">>),
              Row(<<"">>, <<"MT100", "Calculus I", "3+1">>),
              Row(<<"3">>, <<"CS101", "Intro to Programming", "4">>),
              Row(<<>>, <<"Total", "7">>) >>),
     Table(<<"Semester 1">>, << Row(<<"1">>, <<"PH100", "Physics", "3">>) >>) >>

\* tables without semester names, told apart by their Total row
NumberedPage ==
  << Table(<<"Courses">>, << Row(<<>>, <<"1", "CS101", "Intro to Programming", "3">>),
                             Row(<<>>, <<"2", "CS101", "Intro to Programming", "3">>),
                             Row(<<>>, <<"", "Total", "3">>) >>),
     Table(<<>>, << Row(<<>>, <<"No", "Code", "Title">>),
                    Row(<<>>, <<"1", "MT100", "Calculus I", "3+1">>) >>),
     Table(<<>>, << Row(<<>>, <<"TOTAL", "0">>) >>),
     Table(<<>>, << Row(<<>>, <<"MT100", "4">>),
                    Row(<<>>, <<"", "">>),
                    Row(<<>>, <<"Grand Total", "4">>) >>) >>

\* the page of an anti-bot challenge
ChallengePage ==
  << Heading("h1", "Just a moment..."), Para("div", "Checking your browser") >>

\* a course table with neither a semester name nor a Total row
BareTablePage ==
  << Table(<<>>, << Row(<<>>, <<"1", "CS101", "Intro to Programming", "3">>) >>) >>

EmptyPage == <<>>

\* one heading "Semester 1" followed by a table of two courses and a Total
\* row, the label under the titles and the sum under the credits
FixturePage ==
  << Heading("h2", "Semester 1"),
     Table(<<>>, << Row(<<>>, <<"1", "CS101", "Programming Fundamentals", "3">>),
                    Row(<<>>, <<"2", "MT100", "Calculus I", "3">>),
                    Row(<<>>, <<"", "", "Total", "6">>) >>) >>

PageUniverse ==
  {HeadingsPage, TheadPage, NumberedPage, ChallengePage, BareTablePage, EmptyPage,
   FixturePage}

\* extractSemesters on the pages of the model, computed once
extractTable == [d \in PageUniverse |-> extractSemesters(d)]

(***************************************************************************)
(* State.  Each program has its own variables and its own specification,   *)
(* and a specification leaves the variables of the other programs idle.    *)
(***************************************************************************)
VARIABLES
  engine,           \* which tool runs: "prereq" (compare_courses.js) or "plain" (compare_courses_AI.js)
  cmpLive,          \* fetchedSem.courses handed to compareSemesters
  cmpValid,         \* validSemMerged.courses handed to compareSemesters
  cmpDiffs,         \* the diff list compareSemesters returned
  cmpPc,            \* "ready" before the call, "done" after it
  pc,               \* position of main() of the comparison tool
  scrapedFile,      \* data/courses.json: <<>> when missing, <<catalog>> otherwise
  sheetFile,        \* data/courses_from_sheet*.json, likewise
  sheetMap,         \* buildSheetSemesterMap(sheet)
  report,           \* report.semesters
  totalDiffs,
  matchedSheetKeys,
  semIdx,           \* index of the next scraped semester of the first loop
  reportFile,       \* data/compare_report.json: <<>> or <<report.semesters>>
  mailPrimary,      \* outcome of the web3forms request
  mailSmtp,         \* outcome of sendViaSmtpIfConfigured
  smtpEnv,          \* <<>>, or <<the SMTP variables process.env held when it was read>>
  exitStatus,       \* <<>> while running, <<code>> once the process has exited
  plainPage,        \* what fetch(url) answers: <<>> when it fails, <<page>> otherwise
  renderedPage,     \* what the headless browser renders: <<>> when it fails
  semesters,        \* semesters of scrape(): <<>> before extraction, <<list>> after
  semesters2,       \* semesters2 of scrapeWithFallback(), likewise
  scPc,             \* position of scrapeWithFallback()
  scExit            \* exit status of the scraper: <<>> while running

cmpVars == <<cmpLive, cmpValid, cmpDiffs, cmpPc>>

mainVars == <<pc, scrapedFile, sheetFile, sheetMap, report, totalDiffs,
              matchedSheetKeys, semIdx, reportFile, mailPrimary, mailSmtp, smtpEnv, exitStatus>>

scrapeVars == <<plainPage, renderedPage, semesters, semesters2, scPc, scExit>>

vars == <<engine, cmpVars, mainVars, scrapeVars>>

Engines == {"prereq", "plain"}

\* longest course list of a term handed to compareSemesters
MaxLen == 2

SeqsUpTo(S, n) == UNION {[1..k -> S] : k \in 0..n}

CourseLists == SeqsUpTo(CourseUniverse, MaxLen)

\* the engine of the running tool
runEngine(fetchedCourses, validCourses) ==
  IF engine = "prereq" THEN compareSemesters(fetchedCourses, validCourses)
  ELSE compareSemestersAI(fetchedCourses, validCourses)

IdleCmp ==
  /\ cmpLive = <<>>
  /\ cmpValid = <<>>
  /\ cmpDiffs = <<>>
  /\ cmpPc = "idle"

IdleScrape ==
  /\ plainPage = <<>>
  /\ renderedPage = <<>>
  /\ semesters = <<>>
  /\ semesters2 = <<>>
  /\ scPc = "idle"
  /\ scExit = <<>>

IdleMain ==
  /\ pc = "idle"
  /\ scrapedFile = <<>>
  /\ sheetFile = <<>>
  /\ sheetMap = <<>>
  /\ report = <<>>
  /\ totalDiffs = 0
  /\ matchedSheetKeys = {}
  /\ semIdx = 1
  /\ reportFile = <<>>
  /\ mailPrimary = "none"
  /\ mailSmtp = "none"
  /\ smtpEnv = <<>>
  /\ exitStatus = <<>>

(***************************************************************************)
(* compareSemesters as a program of its own: the inputs are drawn from the *)
(* course lists of the model and the function is applied once.             *)
(***************************************************************************)
InitCmp ==
  /\ engine \in Engines
  /\ cmpLive \in CourseLists
  /\ cmpValid \in CourseLists
  /\ cmpDiffs = <<>>
  /\ cmpPc = "ready"
  /\ IdleMain
  /\ IdleScrape

\* a call of compareSemesters(fetchedSem, validSemMerged)
Compare ==
  /\ cmpPc = "ready"
  /\ cmpDiffs' = runEngine(cmpLive, cmpValid)
  /\ cmpPc' = "done"
  /\ UNCHANGED <<engine, cmpLive, cmpValid, mainVars, scrapeVars>>

NextCmp == Compare

SpecCmp == InitCmp /\ [][NextCmp]_vars

(***************************************************************************)
(* compareSemesters on two terms of one course that differ in the text of  *)
(* the prerequisite column only                                            *)
(***************************************************************************)
InitPrereq ==
  /\ engine \in Engines
  /\ cmpLive \in {<<PrereqCourse(t)>> : t \in PrereqTexts}
  /\ cmpValid \in {<<PrereqCourse(t)>> : t \in PrereqTexts}
  /\ cmpDiffs = <<>>
  /\ cmpPc = "ready"
  /\ IdleMain
  /\ IdleScrape

SpecPrereq == InitPrereq /\ [][NextCmp]_vars

(***************************************************************************)
(* compareSemesters on terms with courses whose title is absent or empty   *)
(***************************************************************************)
InitTitle ==
  /\ engine \in Engines
  /\ cmpLive \in SeqsUpTo(TitleUniverse, MaxLen)
  /\ cmpValid \in SeqsUpTo(TitleUniverse, MaxLen)
  /\ cmpDiffs = <<>>
  /\ cmpPc = "ready"
  /\ IdleMain
  /\ IdleScrape

SpecTitle == InitTitle /\ [][NextCmp]_vars

(***************************************************************************)
(* compareSemesters applied again to the same courses in another order     *)
(***************************************************************************)
\* the courses of the rearranged terms: three of one subject, two of them
\* alike but for their credits, one of another subject, one without a title
PermUniverse ==
  { Course("1", "CS101", "Intro to Programming", "3", NULL),
    Course("1", "CS110", "Introduction to Programming", "3", NULL),
    WithLab,
    Course(NULL, "PH100", NULL, "3", NULL),
    OtherSubject }

\* the lists that hold the elements of seq, each as often, in any order
Rearranged(seq) ==
  {[i \in 1..Len(seq) |-> seq[f[i]]] :
     f \in {g \in [1..Len(seq) -> 1..Len(seq)] :
              \A i, j \in 1..Len(seq) : g[i] = g[j] => i = j}}

InitPerm ==
  /\ engine \in Engines
  /\ cmpLive \in SeqsUpTo(PermUniverse, MaxLen)
  /\ cmpValid \in SeqsUpTo(PermUniverse, MaxLen)
  /\ cmpDiffs = <<>>
  /\ cmpPc = "ready"
  /\ IdleMain
  /\ IdleScrape

\* compareSemesters on the live term in another order
PermuteLive ==
  /\ cmpPc \in {"done", "permuted"}
  /\ \E live \in Rearranged(cmpLive) \ {cmpLive} :
       /\ cmpLive' = live
       /\ cmpDiffs' = runEngine(live, cmpValid)
  /\ cmpPc' = "permuted"
  /\ UNCHANGED <<engine, cmpValid, mainVars, scrapeVars>>

\* compareSemesters on the reference term in another order
PermuteValid ==
  /\ cmpPc \in {"done", "permuted"}
  /\ \E valid \in Rearranged(cmpValid) \ {cmpValid} :
       /\ cmpValid' = valid
       /\ cmpDiffs' = runEngine(cmpLive, valid)
  /\ cmpPc' = "permuted"
  /\ UNCHANGED <<engine, cmpLive, mainVars, scrapeVars>>

NextPerm ==
  \/ Compare
  \/ PermuteLive
  \/ PermuteValid

SpecPerm == InitPerm /\ [][NextPerm]_vars

(***************************************************************************)
(* main() of the comparison tools                                          *)
(***************************************************************************)
Term(name, courses) == [name |-> name, courses |-> courses]

\* the terms the two catalogs are drawn from
TermUniverse ==
  { Term("Semester-2", <<Course("1", "CS101", "Intro to Programming", "3", NULL)>>),
    Term("Semester II", <<Course("2", " cs101", "Programming", "3 ", NULL)>>),
    Term("Semester2", <<Course(NULL, NULL, "Total", "18", NULL)>>),
    Term("Summer Term", <<Course("3", "MT100", "Calculus I", "3+1", NULL),
                          Course("3", "MT100", "Calculus I", "3+1", NULL),
                          Course(NULL, NULL, "Total", "18", NULL)>>) }

\* most terms of the extracted catalog and of the reference catalog
MaxATerms == 2

MaxBTerms == 2

Catalog(sems) == [semesters |-> sems]

NameUniverse == {t.name : t \in TermUniverse} \cup {"(unknown)"}

\* normalizeSemKey and semesterNumber on the names of the model, computed once
nameTable ==
  [n \in NameUniverse |-> [norm |-> normalizeSemKey(n), num |-> semesterNumber(n)]]

normOf(n) == nameTable[n].norm

numOf(n) == nameTable[n].num

\* faulty variant: a later term of the same name replaces the earlier one
sheetStepKeepLast(map, sem) ==
  LET key == IF Falsy(sem.name) THEN "(unknown)" ELSE sem.name
  IN  IF HasKey(map, key)
      THEN [i \in 1..Len(map) |->
              IF map[i].key = key
              THEN [map[i] EXCEPT !.courses = sem.courses] ELSE map[i]]
      ELSE Append(map, [key |-> key, name |-> key, courses |-> sem.courses])

\* one iteration of the loop of buildSheetSemesterMap
sheetStep(map, sem) ==
  LET key == IF Falsy(sem.name) THEN "(unknown)" ELSE sem.name
  IN  IF HasKey(map, key)
      THEN [i \in 1..Len(map) |->
              IF map[i].key = key
              THEN [map[i] EXCEPT !.courses = @ \o sem.courses] ELSE map[i]]
      ELSE Append(map, [key |-> key, name |-> key, courses |-> sem.courses])

RECURSIVE buildSheetSemesterMapFrom(_, _)
buildSheetSemesterMapFrom(map, sems) ==
  IF sems = <<>> THEN map
  ELSE buildSheetSemesterMapFrom(sheetStep(map, Head(sems)), Tail(sems))

buildSheetSemesterMap(sheet) == buildSheetSemesterMapFrom(<<>>, sheet.semesters)

\* the key of the first entry of the map, in insertion order, that passes the test
firstKey(map, hits) ==
  IF hits = {} THEN <<>>
  ELSE <<map[CHOOSE i \in hits : \A o \in hits : i <= o].key>>

\* the first loop over the sheet map: first key with the same normalized name
matchByNorm(name, map, tbl) ==
  firstKey(map, {i \in 1..Len(map) : tbl[map[i].key].norm = tbl[name].norm})

\* the second loop over the sheet map: first key with the same semester number
matchByNumber(name, map, tbl) ==
  IF tbl[name].num # <<>>
  THEN firstKey(map, {i \in 1..Len(map) : tbl[map[i].key].num = tbl[name].num})
  ELSE <<>>

orElse(first, second) == IF first # <<>> THEN first ELSE second

\* faulty variant: the normalized-name rule is tried before the exact name
matchTermNormFirst(name, map, tbl) ==
  orElse(matchByNorm(name, map, tbl),
         IF HasKey(map, name) THEN <<name>> ELSE matchByNumber(name, map, tbl))

\* the sheet groups no scraped semester has been matched with so far
unmatchedGroups(map) == SelectIdx(map, {i \in 1..Len(map) : map[i].key \notin matchedSheetKeys})

\* faulty variant: a sheet group that is already matched is not matched again
matchTermReserving(name, map, tbl) ==
  IF HasKey(unmatchedGroups(map), name) THEN <<name>>
  ELSE orElse(matchByNorm(name, unmatchedGroups(map), tbl),
              matchByNumber(name, unmatchedGroups(map), tbl))

\* matchedKey for a scraped semester name: <<>> for null, <<key>> otherwise;
\* tbl holds normalizeSemKey and semesterNumber of every name
matchTermIn(name, map, tbl) ==
  IF HasKey(map, name) THEN <<name>>
  ELSE orElse(matchByNorm(name, map, tbl), matchByNumber(name, map, tbl))

matchTerm(name, map) == matchTermIn(name, map, nameTable)

scrapedSems == IF scrapedFile = <<>> THEN <<>> ELSE scrapedFile[1].semesters

Catalogs(n) == {<<>>} \cup {<<Catalog(t)>> : t \in SeqsUpTo(TermUniverse, n)}

Init ==
  /\ engine \in Engines
  /\ IdleCmp
  /\ IdleScrape
  /\ pc = "start"
  /\ scrapedFile \in Catalogs(MaxATerms)
  /\ sheetFile \in Catalogs(MaxBTerms)
  /\ sheetMap = <<>>
  /\ report = <<>>
  /\ totalDiffs = 0
  /\ matchedSheetKeys = {}
  /\ semIdx = 1
  /\ reportFile = <<>>
  /\ mailPrimary = "none"
  /\ mailSmtp = "none"
  /\ smtpEnv = <<>>
  /\ exitStatus = <<>>

\* faulty variant: a missing file is read as a catalog without terms
MissingInputGoesOn ==
  /\ pc = "start"
  /\ scrapedFile = <<>> \/ sheetFile = <<>>
  /\ pc' = "persist"
  /\ UNCHANGED <<scrapeVars, engine, cmpVars, scrapedFile, sheetFile, sheetMap, report, totalDiffs,
                 matchedSheetKeys, semIdx, reportFile, mailPrimary, mailSmtp, smtpEnv, exitStatus>>

\* readJson on a missing file: process.exit(2)
MissingInput ==
  /\ pc = "start"
  /\ scrapedFile = <<>> \/ sheetFile = <<>>
  /\ exitStatus' = <<2>>
  /\ pc' = "done"
  /\ UNCHANGED <<scrapeVars, engine, cmpVars, scrapedFile, sheetFile, sheetMap, report, totalDiffs,
                 matchedSheetKeys, semIdx, reportFile, mailPrimary, mailSmtp, smtpEnv>>

\* both files are read and the sheet map is built
ReadInputs ==
  /\ pc = "start"
  /\ scrapedFile # <<>> /\ sheetFile # <<>>
  /\ sheetMap' = buildSheetSemesterMap(sheetFile[1])
  /\ report' = <<>>
  /\ totalDiffs' = 0
  /\ matchedSheetKeys' = {}
  /\ semIdx' = 1
  /\ pc' = "match"
  /\ UNCHANGED <<scrapeVars, engine, cmpVars, scrapedFile, sheetFile, reportFile, mailPrimary,
                 mailSmtp, smtpEnv, exitStatus>>

\* the sheet group of matchedKey, or an empty term of the scraped name
validSemOf(scrapedSem, matchedKey, map) ==
  IF matchedKey # <<>> THEN Lookup(map, matchedKey[1])
  ELSE [name |-> scrapedSem.name, courses |-> <<>>]

reportEntry(name, validKey, diffs) ==
  [name |-> name, validKey |-> validKey, diffCount |-> Len(diffs), diffs |-> diffs]

\* the entry pushed for a scraped semester and the sheet group it is compared with
compareEntry(scrapedSem, validSem) ==
  reportEntry(scrapedSem.name, validSem.name, runEngine(scrapedSem.courses, validSem.courses))

\* the body of the loop over the scraped semesters once matchedKey is known
matchedStep(scrapedSem, matchedKey) ==
  /\ matchedSheetKeys' = matchedSheetKeys \cup Range(matchedKey)
  /\ report' = Append(report, compareEntry(scrapedSem,
                                           validSemOf(scrapedSem, matchedKey, sheetMap)))
  /\ totalDiffs' = totalDiffs + report'[Len(report')].diffCount

\* one iteration of the loop over the scraped semesters
CompareTerm ==
  /\ pc = "match"
  /\ semIdx <= Len(scrapedSems)
  /\ matchedStep(scrapedSems[semIdx], matchTerm(scrapedSems[semIdx].name, sheetMap))
  /\ semIdx' = semIdx + 1
  /\ UNCHANGED <<scrapeVars, engine, cmpVars, pc, scrapedFile, sheetFile, sheetMap, reportFile,
                 mailPrimary, mailSmtp, smtpEnv, exitStatus>>

\* faulty variant: an unmatched sheet group is reported even without a diff
extraEntryAlways(key, diffs) == <<reportEntry("(extra in valid) " \o key, key, diffs)>>

\* the entry pushed for an unmatched sheet group, if its diff list is not empty
extraEntry(key, diffs) ==
  IF Len(diffs) > 0 THEN <<reportEntry("(extra in valid) " \o key, key, diffs)>> ELSE <<>>

\* the entries the second loop pushes for the sheet groups from index i on
RECURSIVE extraEntries(_, _, _)
extraEntries(map, matched, i) ==
  IF i > Len(map) THEN <<>>
  ELSE (IF map[i].key \in matched THEN <<>>
        ELSE extraEntry(map[i].key, runEngine(<<>>, map[i].courses)))
       \o extraEntries(map, matched, i + 1)

RECURSIVE sumDiffCounts(_)
sumDiffCounts(entries) ==
  IF entries = <<>> THEN 0 ELSE Head(entries).diffCount + sumDiffCounts(Tail(entries))

\* the loop over the sheet groups no scraped semester matched
ReportExtras ==
  /\ pc = "match"
  /\ semIdx > Len(scrapedSems)
  /\ report' = report \o extraEntries(sheetMap, matchedSheetKeys, 1)
  /\ totalDiffs' = totalDiffs + sumDiffCounts(SubSeq(report', Len(report) + 1, Len(report')))
  /\ pc' = "persist"
  /\ UNCHANGED <<scrapeVars, engine, cmpVars, scrapedFile, sheetFile, sheetMap, matchedSheetKeys,
                 semIdx, reportFile, mailPrimary, mailSmtp, smtpEnv, exitStatus>>

\* fs.writeFileSync of the report inside try / catch
PersistReport ==
  /\ pc = "persist"
  /\ \E ok \in BOOLEAN : reportFile' = IF ok THEN <<report>> ELSE reportFile
  /\ pc' = "email"
  /\ UNCHANGED <<scrapeVars, engine, cmpVars, scrapedFile, sheetFile, sheetMap, report, totalDiffs,
                 matchedSheetKeys, semIdx, mailPrimary, mailSmtp, smtpEnv, exitStatus>>

\* totalDiffs = 0: no e-mail
SkipEmail ==
  /\ pc = "email"
  /\ totalDiffs = 0
  /\ pc' = "exit"
  /\ UNCHANGED <<scrapeVars, engine, cmpVars, scrapedFile, sheetFile, sheetMap, report, totalDiffs,
                 matchedSheetKeys, semIdx, reportFile, mailPrimary, mailSmtp, smtpEnv, exitStatus>>

\* sendEmailReport: the web3forms request answers OK, answers not OK, or throws
SendEmail ==
  /\ pc = "email"
  /\ totalDiffs > 0
  /\ \E outcome \in {"ok", "not-ok", "threw"} :
       /\ mailPrimary' = outcome
       /\ pc' = IF outcome = "ok" THEN "exit" ELSE "smtp"
  /\ UNCHANGED <<scrapeVars, engine, cmpVars, scrapedFile, sheetFile, sheetMap, report, totalDiffs,
                 matchedSheetKeys, semIdx, reportFile, mailSmtp, smtpEnv, exitStatus>>

\* the variables sendViaSmtpIfConfigured asks for
SmtpRequired == {"SMTP_HOST", "SMTP_USER", "SMTP_PASS"}

\* what process.env holds of them: all three, or all but one
SmtpEnvs == {SmtpRequired} \cup {SmtpRequired \ {v} : v \in SmtpRequired}

\* faulty variant: a message is sent without SMTP_PASS
sendViaSmtpWithoutPass(env, delivered) ==
  IF ~({"SMTP_HOST", "SMTP_USER"} \subseteq env) THEN "not-configured"
  ELSE IF delivered THEN "sent" ELSE "failed"

\* sendViaSmtpIfConfigured with process.env holding the variables env:
\* attempted: false, or the outcome of transporter.sendMail
sendViaSmtpIfConfigured(env, delivered) ==
  IF ~(SmtpRequired \subseteq env) THEN "not-configured"
  ELSE IF delivered THEN "sent" ELSE "failed"

\* faulty variant: a failed SMTP fallback ends the process with status 2
SmtpFallbackAborts ==
  /\ pc = "smtp"
  /\ \E env \in SmtpEnvs, delivered \in BOOLEAN :
       /\ smtpEnv' = <<env>>
       /\ mailSmtp' = sendViaSmtpIfConfigured(env, delivered)
       /\ pc' = IF mailSmtp' = "failed" THEN "done" ELSE "exit"
       /\ exitStatus' = IF mailSmtp' = "failed" THEN <<2>> ELSE exitStatus
  /\ UNCHANGED <<scrapeVars, engine, cmpVars, scrapedFile, sheetFile, sheetMap, report, totalDiffs,
                 matchedSheetKeys, semIdx, reportFile, mailPrimary>>

\* sendViaSmtpIfConfigured: not configured, sent, or failed
SmtpFallback ==
  /\ pc = "smtp"
  /\ \E env \in SmtpEnvs, delivered \in BOOLEAN :
       /\ smtpEnv' = <<env>>
       /\ mailSmtp' = sendViaSmtpIfConfigured(env, delivered)
  /\ pc' = "exit"
  /\ UNCHANGED <<scrapeVars, engine, cmpVars, scrapedFile, sheetFile, sheetMap, report, totalDiffs,
                 matchedSheetKeys, semIdx, reportFile, mailPrimary, exitStatus>>

\* faulty variant: the exit code does not depend on the differences
exitCodeZero(n) == 0

\* totalDiffs === 0 ? 0 : 1
exitCode(n) == IF n = 0 THEN 0 ELSE 1

\* process.exit(totalDiffs === 0 ? 0 : 1)
Exit ==
  /\ pc = "exit"
  /\ exitStatus' = <<exitCode(totalDiffs)>>
  /\ pc' = "done"
  /\ UNCHANGED <<scrapeVars, engine, cmpVars, scrapedFile, sheetFile, sheetMap, report, totalDiffs,
                 matchedSheetKeys, semIdx, reportFile, mailPrimary, mailSmtp, smtpEnv>>

Next ==
  \/ MissingInput
  \/ ReadInputs
  \/ CompareTerm
  \/ ReportExtras
  \/ PersistReport
  \/ SkipEmail
  \/ SendEmail
  \/ SmtpFallback
  \/ Exit

Spec == Init /\ [][Next]_vars

\* most terms of a catalog in the runs followed to their end
MaxDeliverTerms == 1

\* the reference terms of the runs on a reference catalog with repeated
\* names: a named term, a term without a name, a term with an empty name
SheetTerms ==
  { Term("Semester-2", <<Course("1", "CS101", "Intro to Programming", "3", NULL)>>),
    Term(NULL, <<Course("3", "MT100", "Calculus I", "3+1", NULL)>>),
    Term("", <<OtherSubject>>) }

\* most terms of such a reference catalog
MaxSheetTerms == 3

InitSheet ==
  /\ engine \in Engines
  /\ IdleCmp
  /\ IdleScrape
  /\ pc = "start"
  /\ scrapedFile \in {<<>>} \cup {<<Catalog(<<t>>)>> : t \in {u \in SheetTerms : ~Falsy(u.name)}}
  /\ sheetFile \in {<<>>} \cup {<<Catalog(t)>> : t \in SeqsUpTo(SheetTerms, MaxSheetTerms)}
  /\ sheetMap = <<>>
  /\ report = <<>>
  /\ totalDiffs = 0
  /\ matchedSheetKeys = {}
  /\ semIdx = 1
  /\ reportFile = <<>>
  /\ mailPrimary = "none"
  /\ mailSmtp = "none"
  /\ smtpEnv = <<>>
  /\ exitStatus = <<>>

SpecSheet == InitSheet /\ [][Next]_vars

InitDeliver ==
  /\ engine \in Engines
  /\ IdleCmp
  /\ IdleScrape
  /\ pc = "start"
  /\ scrapedFile \in Catalogs(MaxDeliverTerms)
  /\ sheetFile \in Catalogs(MaxDeliverTerms)
  /\ sheetMap = <<>>
  /\ report = <<>>
  /\ totalDiffs = 0
  /\ matchedSheetKeys = {}
  /\ semIdx = 1
  /\ reportFile = <<>>
  /\ mailPrimary = "none"
  /\ mailSmtp = "none"
  /\ smtpEnv = <<>>
  /\ exitStatus = <<>>

\* main() is one sequential run: a step that can be taken is taken
SpecDeliver == InitDeliver /\ [][Next]_vars /\ WF_vars(Next)

(***************************************************************************)
(* The scraper: scrapeWithFallback() of src/scrape.js.  The two answers of *)
(* the network, the plain one and the rendered one, are drawn at the start.*)
(***************************************************************************)
Pages == {<<>>} \cup {<<d>> : d \in PageUniverse}

InitScrape ==
  /\ engine = "prereq"
  /\ IdleCmp
  /\ IdleMain
  /\ plainPage \in Pages
  /\ renderedPage \in Pages
  /\ semesters = <<>>
  /\ semesters2 = <<>>
  /\ scPc = "fetch"
  /\ scExit = <<>>

driverRest == <<pc, sheetFile, sheetMap, report, totalDiffs, matchedSheetKeys, semIdx,
                reportFile, mailPrimary, mailSmtp, smtpEnv, exitStatus>>

\* scrape(): fetch throws or res.ok is false; the error is caught and the
\* fallback is tried
FetchFailed ==
  /\ scPc = "fetch"
  /\ plainPage = <<>>
  /\ scPc' = "launch"
  /\ UNCHANGED <<engine, cmpVars, driverRest, scrapedFile, plainPage, renderedPage,
                 semesters, semesters2, scExit>>

\* scrape(): the page is fetched and loaded
Fetched ==
  /\ scPc = "fetch"
  /\ plainPage # <<>>
  /\ scPc' = "parse"
  /\ UNCHANGED <<engine, cmpVars, driverRest, scrapedFile, plainPage, renderedPage,
                 semesters, semesters2, scExit>>

\* scrape(): extractSemesters, and the throw when it returns nothing
Extract ==
  /\ scPc = "parse"
  /\ semesters' = <<extractTable[plainPage[1]]>>
  /\ scPc' = IF semesters'[1] = <<>> THEN "launch" ELSE "write"
  /\ UNCHANGED <<engine, cmpVars, driverRest, scrapedFile, plainPage, renderedPage,
                 semesters2, scExit>>

\* faulty variant: scrapeWithFallback() does not return after scrape()
WriteCatalogNoReturn ==
  /\ scPc = "write"
  /\ \E ok \in BOOLEAN :
       scrapedFile' = IF ok THEN <<Catalog(semesters[1])>> ELSE scrapedFile
  /\ scPc' = "launch"
  /\ UNCHANGED <<engine, cmpVars, driverRest, plainPage, renderedPage, semesters,
                 semesters2, scExit>>

\* scrape(): mkdir and writeFile of data/courses.json; when they throw the
\* fallback is tried
WriteCatalog ==
  /\ scPc = "write"
  /\ \E ok \in BOOLEAN :
       IF ok THEN /\ scrapedFile' = <<Catalog(semesters[1])>>
                  /\ scPc' = "done"
                  /\ scExit' = <<0>>
             ELSE /\ scPc' = "launch"
                  /\ UNCHANGED <<scrapedFile, scExit>>
  /\ UNCHANGED <<engine, cmpVars, driverRest, plainPage, renderedPage, semesters,
                 semesters2>>

\* the fallback: the browser cannot be imported, launched or navigated
LaunchFailed ==
  /\ scPc = "launch"
  /\ renderedPage = <<>>
  /\ scExit' = <<2>>
  /\ scPc' = "done"
  /\ UNCHANGED <<engine, cmpVars, driverRest, scrapedFile, plainPage, renderedPage,
                 semesters, semesters2>>

\* the fallback: page.content() is loaded
Rendered ==
  /\ scPc = "launch"
  /\ renderedPage # <<>>
  /\ scPc' = "parse2"
  /\ UNCHANGED <<engine, cmpVars, driverRest, scrapedFile, plainPage, renderedPage,
                 semesters, semesters2, scExit>>

\* the fallback: extractSemesters on the rendered page
ExtractRendered ==
  /\ scPc = "parse2"
  /\ semesters2' = <<extractTable[renderedPage[1]]>>
  /\ scPc' = "write2"
  /\ UNCHANGED <<engine, cmpVars, driverRest, scrapedFile, plainPage, renderedPage,
                 semesters, scExit>>

\* the fallback: mkdir and writeFile; when they throw, process.exit(2)
WriteRendered ==
  /\ scPc = "write2"
  /\ \E ok \in BOOLEAN :
       IF ok THEN /\ scrapedFile' = <<Catalog(semesters2[1])>>
                  /\ scExit' = <<0>>
             ELSE /\ scExit' = <<2>>
                  /\ UNCHANGED scrapedFile
  /\ scPc' = "done"
  /\ UNCHANGED <<engine, cmpVars, driverRest, plainPage, renderedPage, semesters,
                 semesters2>>

NextScrape ==
  \/ FetchFailed
  \/ Fetched
  \/ Extract
  \/ WriteCatalog
  \/ LaunchFailed
  \/ Rendered
  \/ ExtractRendered
  \/ WriteRendered

SpecScrape == InitScrape /\ [][NextScrape]_vars

(***************************************************************************)
(* Vocabulary of the claims about compareSemesters                         *)
(***************************************************************************)
prereqAwareNow == engine = "prereq"

\* fingerprint of a course under the running engine
Key(c) == keyOf(c, prereqAwareNow)

\* positions of the courses of a list that take part in comparison
Compared(list) == {i \in 1..Len(list) : ~totalOf(list[i])}

keysOf(list) == {Key(list[i]) : i \in Compared(list)}

\* multiplicity of fingerprint k in a list
countOf(list, k) == Cardinality({i \in Compared(list) : Key(list[i]) = k})

\* first course of the list with fingerprint k
firstIdx(list, k) ==
  CHOOSE i \in Compared(list) :
    /\ Key(list[i]) = k
    /\ \A j \in Compared(list) : Key(list[j]) = k => i <= j

PairTypes == {"code-mismatch", "prerequisite-mismatch"}

entryCourses(d) ==
  IF d.type \in PairTypes THEN {d.fetched, d.valid} ELSE {d.course}

typeCount(diffs, type) == Cardinality({i \in 1..Len(diffs) : diffs[i].type = type})

missingKeys == keysOf(cmpValid) \ keysOf(cmpLive)

extraKeys == keysOf(cmpLive) \ keysOf(cmpValid)

sharedKeys == keysOf(cmpLive) \cap keysOf(cmpValid)

\* C1: when the live and the reference term hold the same multiset of
\* fingerprints (order and total rows ignored), compareSemesters returns an
\* empty diff list, under either engine.
C1_MultisetSymmetry ==
  (/\ cmpPc = "done"
   /\ \A k \in keysOf(cmpLive) \cup keysOf(cmpValid) :
        countOf(cmpLive, k) = countOf(cmpValid, k))
  => cmpDiffs = <<>>

C1_Witness ==
  /\ cmpPc = "done"
  /\ Len(cmpLive) = 2
  /\ Cardinality(keysOf(cmpLive)) = 2
  /\ cmpLive # cmpValid
  /\ \A k \in keysOf(cmpLive) \cup keysOf(cmpValid) :
       countOf(cmpLive, k) = countOf(cmpValid, k)
  /\ cmpDiffs = <<>>

\* C2: a fingerprint present in both count maps with different counts gets
\* exactly one count-mismatch entry, carrying the live count as fetchedCount
\* and the reference count as validCount, and no entry of another type.
C2_CountSensitivity ==
  cmpPc = "done" =>
    \A k \in sharedKeys :
      countOf(cmpLive, k) # countOf(cmpValid, k) =>
        /\ \E i \in 1..Len(cmpDiffs) :
             /\ cmpDiffs[i].type = "count-mismatch"
             /\ Key(cmpDiffs[i].course) = k
             /\ cmpDiffs[i].fetchedCount = countOf(cmpLive, k)
             /\ cmpDiffs[i].validCount = countOf(cmpValid, k)
             /\ \A j \in 1..Len(cmpDiffs) :
                  (cmpDiffs[j].type = "count-mismatch" /\ Key(cmpDiffs[j].course) = k)
                    => j = i
        /\ \A j \in 1..Len(cmpDiffs) :
             cmpDiffs[j].type # "count-mismatch"
               => \A c \in entryCourses(cmpDiffs[j]) : Key(c) # k

C2_Witness ==
  /\ cmpPc = "done"
  /\ \E k \in sharedKeys : countOf(cmpLive, k) = 1 /\ countOf(cmpValid, k) = 2
  /\ typeCount(cmpDiffs, "count-mismatch") = 1
  /\ Len(cmpDiffs) = 1

\* the entries of a diff list that are no count-mismatch
RECURSIVE withoutCounts(_)
withoutCounts(diffs) ==
  IF diffs = <<>> THEN <<>>
  ELSE IF Head(diffs).type = "count-mismatch" THEN withoutCounts(Tail(diffs))
       ELSE <<Head(diffs)>> \o withoutCounts(Tail(diffs))

\* a Jaccard index, as <<intersection, union>>, of 0.15 or more
similarEnough(sim) == 100 * sim[1] >= 15 * sim[2]

\* the case of C3: one missing candidate m, one extra candidate e, equal
\* normalized credits, different codes, title Jaccard index >= 0.15
C3_Case ==
  /\ cmpPc = "done"
  /\ Cardinality(missingKeys) = 1
  /\ Cardinality(extraKeys) = 1
  /\ LET m == cmpValid[firstIdx(cmpValid, CHOOSE k \in missingKeys : TRUE)]
         e == cmpLive[firstIdx(cmpLive, CHOOSE k \in extraKeys : TRUE)]
     IN  /\ normalizeCredits(m.credits) = normalizeCredits(e.credits)
         /\ normalizeCode(m.code) # normalizeCode(e.code)
         /\ similarEnough(jaccard(m.title, e.title))

\* C3: a single missing and a single extra candidate with equal normalized
\* credits, different codes and similar titles give exactly one code-mismatch
\* entry pairing them, and no separate missing or extra entry.
C3_PairingDeterminism ==
  C3_Case =>
    LET m == cmpValid[firstIdx(cmpValid, CHOOSE k \in missingKeys : TRUE)]
        e == cmpLive[firstIdx(cmpLive, CHOOSE k \in extraKeys : TRUE)]
    IN  withoutCounts(cmpDiffs) = <<[type |-> "code-mismatch", fetched |-> e, valid |-> m]>>

C3_Witness ==
  /\ C3_Case
  /\ \E i \in 1..Len(cmpValid) : cmpValid[i].code = "CS101" /\ cmpValid[i].title = "Intro to Programming"
  /\ \E i \in 1..Len(cmpLive) : cmpLive[i].code = "CS110"
  /\ Len(cmpDiffs) = 1
  /\ cmpDiffs[1].type = "code-mismatch"

\* the total-marker test as the claim states it
TotalMarkers ==
  {c \in CourseUniverse :
     \/ normalizeCode(c.code) \in {"TOTAL", "GRAND TOTAL"}
     \/ includes(toLowerCase(OrEmpty(c.title)), "total")}

RECURSIVE noTotals(_)
noTotals(list) ==
  IF list = <<>> THEN <<>>
  ELSE IF Head(list) \in TotalMarkers THEN noTotals(Tail(list))
       ELSE <<Head(list)>> \o noTotals(Tail(list))

RECURSIVE sumCounts(_)
sumCounts(m) == IF m = <<>> THEN 0 ELSE Head(m).count + sumCounts(Tail(m))

\* C4: a total-marker course adds nothing to either count map, no diff
\* entry carries one, and the diff list is the one of the terms with the
\* total-marker courses removed.
C4_TotalExclusion ==
  cmpPc = "done" =>
    /\ \A list \in {cmpLive, cmpValid} :
         LET map == makeCountMap(list, prereqAwareNow)
         IN  /\ \A i \in 1..Len(map) : map[i].sample \notin TotalMarkers
             /\ sumCounts(map) = Len(noTotals(list))
    /\ \A i \in 1..Len(cmpDiffs) : entryCourses(cmpDiffs[i]) \cap TotalMarkers = {}
    /\ cmpDiffs = runEngine(noTotals(cmpLive), noTotals(cmpValid))

C4_Witness ==
  /\ cmpPc = "done"
  /\ \E i \in 1..Len(cmpLive) : cmpLive[i] \in TotalMarkers /\ cmpLive[i].code = NULL
  /\ \E i \in 1..Len(cmpValid) : cmpValid[i] \in TotalMarkers /\ cmpValid[i].title = NULL
  /\ Len(cmpDiffs) = 2

\* position of a diff type in the output order
groupOf(type) ==
  CASE type \in PairTypes -> 1
    [] type = "missing-in-fetched" -> 2
    [] type = "extra-in-fetched" -> 3
    [] type = "count-mismatch" -> 4

\* C5: paired entries (in pairing order) come first, then missing entries
\* (reference order), then extra entries (live order), then count-mismatches.
C5_OutputOrdering ==
  cmpPc = "done" =>
    \A i, j \in 1..Len(cmpDiffs) :
      i < j =>
        LET a == cmpDiffs[i]
            b == cmpDiffs[j]
        IN  /\ groupOf(a.type) <= groupOf(b.type)
            /\ (groupOf(a.type) = 1 /\ groupOf(b.type) = 1)
                 => firstIdx(cmpValid, Key(a.valid)) < firstIdx(cmpValid, Key(b.valid))
            /\ (a.type = "missing-in-fetched" /\ b.type = "missing-in-fetched")
                 => firstIdx(cmpValid, Key(a.course)) < firstIdx(cmpValid, Key(b.course))
            /\ (a.type = "extra-in-fetched" /\ b.type = "extra-in-fetched")
                 => firstIdx(cmpLive, Key(a.course)) < firstIdx(cmpLive, Key(b.course))

C5_Witness ==
  /\ cmpPc = "done"
  /\ Len(cmpDiffs) = 3
  /\ groupOf(cmpDiffs[1].type) = 1
  /\ cmpDiffs[2].type = "missing-in-fetched"
  /\ cmpDiffs[3].type = "extra-in-fetched"

\* the fingerprints of the reference courses a diff list shows as missing
\* or as the valid side of a pair, entry by entry
validSide(diffs) ==
  [n \in 1..Len(diffs) |->
     IF diffs[n].type \in PairTypes THEN <<Key(diffs[n].valid)>>
     ELSE IF diffs[n].type = "missing-in-fetched" THEN <<Key(diffs[n].course)>>
     ELSE <<>>]

\* the fingerprints of the live courses a diff list shows as extra or as the
\* fetched side of a pair, entry by entry
fetchedSide(diffs) ==
  [n \in 1..Len(diffs) |->
     IF diffs[n].type \in PairTypes THEN <<Key(diffs[n].fetched)>>
     ELSE IF diffs[n].type = "extra-in-fetched" THEN <<Key(diffs[n].course)>>
     ELSE <<>>]

\* how often fingerprint k stands in a list of sides
sideCount(sides, k) == Cardinality({n \in 1..Len(sides) : sides[n] = <<k>>})

sideKeys(sides) == UNION {Range(sides[n]) : n \in 1..Len(sides)}

\* the two lists of sides show the same fingerprints, each as often
sameSides(a, b) ==
  /\ sideKeys(a) = sideKeys(b)
  /\ \A k \in sideKeys(a) : sideCount(a, k) = sideCount(b, k)

\* the count-mismatch entries of a diff list without their sample courses
countTriples(diffs) ==
  {<<Key(diffs[n].course), diffs[n].fetchedCount, diffs[n].validCount>> :
     n \in {i \in 1..Len(diffs) : diffs[i].type = "count-mismatch"}}

DiffTypes == PairTypes \cup {"missing-in-fetched", "extra-in-fetched", "count-mismatch"}

\* this step compares the same courses again in another order
PermuteStep == cmpPc \in {"done", "permuted"} /\ cmpPc' = "permuted"

Returned == cmpPc \in {"done", "permuted"}

\* the entries of the diff list that pair two courses
pairEntries == {n \in 1..Len(cmpDiffs) : cmpDiffs[n].type \in PairTypes}

\* C17: every code-mismatch and every prerequisite-mismatch entry pairs a
\* live and a reference course of equal normalized credits; when no missing
\* candidate has the normalized credits of an extra candidate, nothing is
\* paired, however alike codes and titles are.
C17_CreditsGate ==
  Returned =>
    /\ \A n \in pairEntries :
         normalizeCredits(cmpDiffs[n].fetched.credits)
           = normalizeCredits(cmpDiffs[n].valid.credits)
    /\ (\A i \in Compared(cmpValid), j \in Compared(cmpLive) :
          (Key(cmpValid[i]) \in missingKeys /\ Key(cmpLive[j]) \in extraKeys)
          => normalizeCredits(cmpValid[i].credits) # normalizeCredits(cmpLive[j].credits))
       => pairEntries = {}

\* CS101 "Intro to Programming" with credits 3+1 on the live side and with
\* credits 3 on the reference side: a missing and an extra entry, no pair
C17_Witness ==
  /\ Returned
  /\ cmpLive = <<WithLab>>
  /\ Len(cmpValid) = 1
  /\ cmpValid[1].code = "CS101" /\ cmpValid[1].title = "Intro to Programming"
  /\ normalizeCredits(cmpValid[1].credits) = "3"
  /\ Len(cmpDiffs) = 2
  /\ pairEntries = {}

\* the first course of every fingerprint of list that other lacks, in the
\* order of list: the sample courses of the candidates
candidates(list, other) ==
  SelectIdx(list, {i \in Compared(list) :
                     /\ Key(list[i]) \notin keysOf(other)
                     /\ i = firstIdx(list, Key(list[i]))})

\* the pairing condition holds for missing sample m and extra sample e
pairable(m, e) == outcomeOf(m, e, prereqAwareNow) # "skip"

\* positions in E of the extra candidates the diff list pairs with m
pairedTo(m, E) ==
  {j \in 1..Len(E) :
     \E n \in pairEntries : cmpDiffs[n].valid = m /\ cmpDiffs[n].fetched = E[j]}

\* the extra candidates missing candidate i finds pairable and not paired
\* with an earlier missing candidate
freeFor(i, M, E) ==
  {j \in 1..Len(E) :
     /\ pairable(M[i], E[j])
     /\ \A o \in 1..(i - 1) : j \notin pairedTo(M[o], E)}

\* the diff list pairs the missing candidates M with the extra candidates E
\* first-fit, in the order of M
firstFit(M, E) ==
  /\ \A i \in 1..Len(M) :
       pairedTo(M[i], E) =
         IF freeFor(i, M, E) = {} THEN {}
         ELSE {CHOOSE j \in freeFor(i, M, E) : \A o \in freeFor(i, M, E) : j <= o}
  /\ Cardinality(pairEntries) = Cardinality({i \in 1..Len(M) : pairedTo(M[i], E) # {}})
  /\ \A n, o \in pairEntries :
       n < o => \E i, k \in 1..Len(M) :
                  i < k /\ cmpDiffs[n].valid = M[i] /\ cmpDiffs[o].valid = M[k]

\* C18: the missing candidates are gone through in reference order; each
\* is paired with the first extra candidate in live order that satisfies
\* the pairing condition and is not paired with an earlier missing
\* candidate, and stays unpaired when there is none, even if an earlier
\* candidate could have been paired otherwise; the pairs stand in the diff
\* list in the order in which they were formed.
C18_GreedyFirstFit ==
  Returned => firstFit(candidates(cmpValid, cmpLive), candidates(cmpLive, cmpValid))

\* MA200 finds only the course without a title pairable, and CS110, which
\* comes first and could have taken CS101, has taken it
C18_Witness ==
  /\ Returned
  /\ Len(cmpValid) = 2 /\ Len(cmpLive) = 2
  /\ cmpValid[1].code = "CS110" /\ cmpValid[2] = OtherSubject
  /\ cmpLive[1].code = "PH100" /\ cmpLive[2].code = "CS101"
  /\ pairable(cmpValid[1], cmpLive[2])
  /\ pairable(OtherSubject, cmpLive[1]) /\ ~pairable(OtherSubject, cmpLive[2])
  /\ Len(cmpDiffs) = 3
  /\ cmpDiffs[1].type = "code-mismatch"
  /\ cmpDiffs[1].valid = cmpValid[1] /\ cmpDiffs[1].fetched = cmpLive[1]
  /\ cmpDiffs[2].type = "missing-in-fetched" /\ cmpDiffs[2].course = OtherSubject
  /\ cmpDiffs[3].type = "extra-in-fetched" /\ cmpDiffs[3].course = cmpLive[2]

\* the normalized fields of the courses of the model, computed once
fieldTable ==
  [c \in KnownCourses |->
     [code |-> normalizeCode(c.code), credits |-> normalizeCredits(c.credits),
      prereq |-> normalizePrereq(c.prerequisite)]]

\* m and e have the same normalized code and credits and different
\* normalized prerequisites
prereqChanged(m, e) ==
  /\ fieldTable[m].code = fieldTable[e].code
  /\ fieldTable[m].credits = fieldTable[e].credits
  /\ fieldTable[m].prereq # fieldTable[e].prereq

\* the entries of the diff list that show course c
entriesWith(c) == {n \in 1..Len(cmpDiffs) : c \in entryCourses(cmpDiffs[n])}

\* the diff list has a prerequisite-mismatch entry of m and e, and shows
\* neither of them in another entry
reportedAsChanged(m, e) ==
  \E n \in 1..Len(cmpDiffs) :
    /\ cmpDiffs[n].type = "prerequisite-mismatch"
    /\ cmpDiffs[n].valid = m /\ cmpDiffs[n].fetched = e
    /\ entriesWith(m) = {n} /\ entriesWith(e) = {n}

\* C19 as stated: every missing candidate and extra candidate with equal
\* normalized code and credits and different normalized prerequisites are
\* reported as one prerequisite-mismatch entry and under no other type.
C19_AsStated ==
  (Returned /\ prereqAwareNow) =>
    \A m \in Range(candidates(cmpValid, cmpLive)), e \in Range(candidates(cmpLive, cmpValid)) :
      prereqChanged(m, e) => reportedAsChanged(m, e)

\* every prerequisite-mismatch entry is one of a missing and an extra
\* candidate with a changed prerequisite
changedOnly(M, E) ==
  \A n \in 1..Len(cmpDiffs) :
    cmpDiffs[n].type = "prerequisite-mismatch" =>
      /\ prereqAwareNow
      /\ cmpDiffs[n].valid \in Range(M) /\ cmpDiffs[n].fetched \in Range(E)
      /\ prereqChanged(cmpDiffs[n].valid, cmpDiffs[n].fetched)

\* a changed prerequisite is reported when the extra candidate is the first
\* one the missing candidate finds pairable and not yet paired
changedWhenFirst(M, E) ==
  \A i \in 1..Len(M), j \in 1..Len(E) :
    (/\ prereqAwareNow
     /\ prereqChanged(M[i], E[j])
     /\ j \in freeFor(i, M, E)
     /\ \A o \in freeFor(i, M, E) : j <= o)
    => reportedAsChanged(M[i], E[j])

\* C19: in the prerequisite-aware engine a missing candidate m and an extra
\* candidate e with equal normalized code and credits and different
\* normalized prerequisites are reported as one prerequisite-mismatch entry
\* (valid = m, fetched = e) and under no other type, provided e is the first
\* extra candidate in live order that m finds pairable and that no earlier
\* missing candidate has taken; and a prerequisite-mismatch entry is never
\* reported for anything else.
C19_PrerequisiteMismatch ==
  Returned =>
    /\ changedOnly(candidates(cmpValid, cmpLive), candidates(cmpLive, cmpValid))
    /\ changedWhenFirst(candidates(cmpValid, cmpLive), candidates(cmpLive, cmpValid))

\* the course with prerequisite MT 100 comes first in the reference term
\* and takes the live course of its code, which has no prerequisite; the
\* second reference course, which could have taken it, is missing
C19_Witness ==
  /\ Returned /\ prereqAwareNow
  /\ Len(cmpValid) = 2 /\ Len(cmpLive) = 1
  /\ cmpValid[1].prerequisite = "MT 100" /\ cmpLive[1].prerequisite = NULL
  /\ cmpValid[1].code = cmpLive[1].code /\ cmpValid[2].code # cmpLive[1].code
  /\ prereqChanged(cmpValid[1], cmpLive[1])
  /\ pairable(cmpValid[2], cmpLive[1])
  /\ Len(cmpDiffs) = 2
  /\ reportedAsChanged(cmpValid[1], cmpLive[1])
  /\ cmpDiffs[2].type = "missing-in-fetched" /\ cmpDiffs[2].course = cmpValid[2]

\* the course codes embedded in a prerequisite text, as a set: the matches
\* of the code pattern in the upper-cased text, white space as a hyphen
codeSet(text) ==
  IF Falsy(text) THEN {}
  ELSE {replaceRuns(c, SpaceSet, "-") : c \in Range(matchCodes(toUpperCase(trim(text)), 1))}

\* the list of the elements of a set of strings in lexicographic order
RECURSIVE sortedSet(_)
sortedSet(S) ==
  IF S = {} THEN <<>>
  ELSE LET least == CHOOSE x \in S : \A y \in S \ {x} : StrLess(x, y)
       IN  <<least>> \o sortedSet(S \ {least})

\* what the prerequisite column reads in the two terms
liveText == cmpLive[1].prerequisite

validText == cmpValid[1].prerequisite

\* C20: the normalized prerequisite of a text is the sorted set of the
\* course codes embedded in it, joined by "|"; two texts with the same set
\* of codes, in any order and with any repetition, prose and letter case,
\* have the same normalized prerequisite, and two courses that differ in
\* such texts only are compared without a diff.
C20_PrereqSetSemantics ==
  Returned =>
    /\ normalizePrereq(liveText) = join(sortedSet(codeSet(liveText)), "|")
    /\ codeSet(liveText) = codeSet(validText) =>
         /\ normalizePrereq(liveText) = normalizePrereq(validText)
         /\ cmpDiffs = <<>>

\* the entries that show m as the valid side of a pair or as missing
asMissing(m) ==
  {n \in 1..Len(cmpDiffs) :
     \/ cmpDiffs[n].type \in PairTypes /\ cmpDiffs[n].valid = m
     \/ cmpDiffs[n].type = "missing-in-fetched" /\ cmpDiffs[n].course = m}

\* the entries that show e as the fetched side of a pair or as extra
asExtra(e) ==
  {n \in 1..Len(cmpDiffs) :
     \/ cmpDiffs[n].type \in PairTypes /\ cmpDiffs[n].fetched = e
     \/ cmpDiffs[n].type = "extra-in-fetched" /\ cmpDiffs[n].course = e}

\* the diff list conserves the missing candidates M and the extra
\* candidates E
conserved(M, E) ==
  /\ \A i \in 1..Len(M) : Cardinality(asMissing(M[i])) = 1
  /\ \A j \in 1..Len(E) : Cardinality(asExtra(E[j])) = 1
  /\ \A n \in 1..Len(cmpDiffs) :
       \/ cmpDiffs[n].type = "count-mismatch"
       \/ \E i \in 1..Len(M) : n \in asMissing(M[i])
       \/ \E j \in 1..Len(E) : n \in asExtra(E[j])
  /\ Len(cmpDiffs) = Len(M) + Len(E) - Cardinality(pairEntries)
                       + typeCount(cmpDiffs, "count-mismatch")

\* C24: in every diff list each missing candidate stands in exactly one
\* entry, as the valid side of a pair or as a missing entry, and each extra
\* candidate in exactly one, as the fetched side of a pair or as an extra
\* entry; every other entry is a count-mismatch, so the entries number
\* |missing candidates| + |extra candidates| - |pairs| + |count-mismatches|.
C24_Conservation ==
  Returned => conserved(candidates(cmpValid, cmpLive), candidates(cmpLive, cmpValid))

\* two missing and two extra candidates, of which one pair is formed
C24_Witness ==
  /\ Returned
  /\ Len(candidates(cmpValid, cmpLive)) = 2
  /\ Len(candidates(cmpLive, cmpValid)) = 2
  /\ Cardinality(pairEntries) = 1
  /\ Len(cmpDiffs) = 3

\* the title String(c.title || '') is the empty string
emptyTitle(c) == OrEmpty(c.title) = ""

\* the inner loop examines missing candidate i against extra candidate j,
\* neither being paired before, and finds equal normalized credits and an
\* empty title on one side
vacuousAt(i, j, M, E) ==
  /\ fieldTable[M[i]].credits = fieldTable[E[j]].credits
  /\ emptyTitle(M[i]) \/ emptyTitle(E[j])
  /\ \A o \in 1..(i - 1) : j \notin pairedTo(M[o], E)
  /\ \A o \in 1..(j - 1) : o \notin pairedTo(M[i], E)

\* the diff list has an entry of the given type that pairs m with e
pairedAs(m, e, type) ==
  \E n \in 1..Len(cmpDiffs) :
    cmpDiffs[n].type = type /\ cmpDiffs[n].valid = m /\ cmpDiffs[n].fetched = e

\* the type under which the inner loop pairs two candidates it examines
\* with equal credits and an empty title
vacuousType(m, e) ==
  IF prereqAwareNow /\ prereqChanged(m, e) THEN "prerequisite-mismatch" ELSE "code-mismatch"

\* C26 as stated: every examined (missing, extra) pair with equal normalized
\* credits and an absent or empty title on one side is emitted as a
\* code-mismatch.
C26_AsStated ==
  Returned =>
    LET M == candidates(cmpValid, cmpLive)
        E == candidates(cmpLive, cmpValid)
    IN  \A i \in 1..Len(M) : \A j \in 1..Len(E) :
          vacuousAt(i, j, M, E) => pairedAs(M[i], E[j], "code-mismatch")

\* C26: an absent or empty title is a substring of every title, so an
\* examined (missing, extra) pair with equal normalized credits and an absent
\* or empty title on one side is always emitted as a pair, whatever the
\* other title: as a code-mismatch, except that the prerequisite-aware
\* engine emits it as a prerequisite-mismatch when the two codes are equal
\* and the prerequisites differ.
C26_EmptyTitle ==
  Returned =>
    LET M == candidates(cmpValid, cmpLive)
        E == candidates(cmpLive, cmpValid)
    IN  \A i \in 1..Len(M) : \A j \in 1..Len(E) :
          vacuousAt(i, j, M, E) => pairedAs(M[i], E[j], vacuousType(M[i], E[j]))

\* "Linear Algebra" against a course without a title: no common word, no
\* acronym on one side, and yet a code-mismatch
C26_Witness ==
  /\ Returned
  /\ cmpValid = <<OtherSubject>> /\ cmpLive = <<NoTitle>>
  /\ Range(words(OtherSubject.title)) \cap Range(words(NoTitle.title)) = {}
  /\ jaccard(OtherSubject.title, NoTitle.title)[1] = 0
  /\ cmpDiffs = <<[type |-> "code-mismatch", fetched |-> NoTitle, valid |-> OtherSubject]>>

\* all courses of the list have the same normalized prerequisite
samePrereq(list) ==
  \A i, j \in 1..Len(list) : fieldTable[list[i]].prereq = fieldTable[list[j]].prereq

\* m and e have the same normalized code and the same normalized credits
sameCourse(m, e) ==
  /\ fieldTable[m].code = fieldTable[e].code
  /\ fieldTable[m].credits = fieldTable[e].credits

\* the diff list reports reference course m and live course e as different:
\* as the two sides of a pair, or one as missing and the other as extra
reportedDifferent(diffs, m, e) ==
  \/ \E n \in 1..Len(diffs) :
       diffs[n].type \in PairTypes /\ diffs[n].valid = m /\ diffs[n].fetched = e
  \/ \E n, o \in 1..Len(diffs) :
       /\ diffs[n].type = "missing-in-fetched" /\ diffs[n].course = m
       /\ diffs[o].type = "extra-in-fetched" /\ diffs[o].course = e

\* what the plain engine returns for the two terms
plainLaw(aware, plain) ==
  /\ samePrereq(cmpLive \o cmpValid) => aware = plain
  /\ typeCount(plain, "prerequisite-mismatch") = 0
  /\ \A i \in 1..Len(cmpValid) : \A j \in 1..Len(cmpLive) :
       sameCourse(cmpValid[i], cmpLive[j])
         => ~reportedDifferent(plain, cmpValid[i], cmpLive[j])

\* C27: on two terms all of whose courses have the same normalized
\* prerequisite the prerequisite-aware engine and the plain engine return
\* the same diff list; the plain engine emits no prerequisite-mismatch, and
\* it reports no reference course and live course of equal normalized code
\* and credits as different.
C27_EngineEquivalence ==
  Returned => plainLaw(compareSemesters(cmpLive, cmpValid),
                       compareSemestersAI(cmpLive, cmpValid))

\* all prerequisites absent: both engines pair the two courses alike
C27_Witness ==
  /\ Returned
  /\ cmpValid = <<OtherSubject, WithLab>> /\ cmpLive = <<BlankTitle>>
  /\ samePrereq(cmpLive \o cmpValid)
  /\ compareSemesters(cmpLive, cmpValid) = compareSemestersAI(cmpLive, cmpValid)
  /\ Len(cmpDiffs) = 2
  /\ cmpDiffs[1].type = "code-mismatch"

(***************************************************************************)
(* Vocabulary of the claims about main(): the term matcher is restated on  *)
(* the reference catalog as it was read, not on the sheet map.             *)
(***************************************************************************)
\* the B-terms in reference order
bTerms == IF sheetFile = <<>> THEN <<>> ELSE sheetFile[1].semesters

\* positions of the A-terms the first loop has gone through
processed == 1..(semIdx - 1)

exactB(a) == {j \in 1..Len(bTerms) : bTerms[j].name = a}

normB(a) == {j \in 1..Len(bTerms) : normOf(bTerms[j].name) = normOf(a)}

ordB(a) ==
  IF numOf(a) = <<>> THEN {}
  ELSE {j \in 1..Len(bTerms) : numOf(bTerms[j].name) = numOf(a)}

firstName(S) == bTerms[CHOOSE j \in S : \A o \in S : j <= o].name

\* the B-term name the three rules select for A-term name a, <<>> if none
selected(a) ==
  IF exactB(a) # {} THEN <<a>>
  ELSE IF normB(a) # {} THEN <<firstName(normB(a))>>
  ELSE IF ordB(a) # {} THEN <<firstName(ordB(a))>>
  ELSE <<>>

\* the courses of all B-terms of one name, in reference order
RECURSIVE coursesNamed(_, _)
coursesNamed(terms, name) ==
  IF terms = <<>> THEN <<>>
  ELSE (IF Head(terms).name = name THEN Head(terms).courses ELSE <<>>)
       \o coursesNamed(Tail(terms), name)

RECURSIVE sumLens(_)
sumLens(entries) ==
  IF entries = <<>> THEN 0 ELSE Len(Head(entries).diffs) + sumLens(Tail(entries))

inputsPresent == scrapedFile # <<>> /\ sheetFile # <<>>

reportSettled == pc \in {"email", "smtp", "exit", "done"}

\* a step taken after the two loops changes neither the catalogs nor the
\* report nor what was recorded while it was computed
SettledStep ==
  pc \in {"persist", "email", "smtp", "exit"} =>
    /\ scrapedFile' = scrapedFile /\ sheetFile' = sheetFile /\ sheetMap' = sheetMap
    /\ report' = report /\ matchedSheetKeys' = matchedSheetKeys
    /\ semIdx' = semIdx /\ totalDiffs' = totalDiffs

\* the report entry of the A-term at position i compares it with the B-term
\* sel names, with an empty term if sel names none
comparedWith(i, sel) ==
  /\ report[i].name = scrapedSems[i].name
  /\ IF sel = <<>>
     THEN /\ report[i].validKey = scrapedSems[i].name
          /\ report[i].diffs = runEngine(scrapedSems[i].courses, <<>>)
     ELSE /\ report[i].validKey = sel[1]
          /\ report[i].diffs = runEngine(scrapedSems[i].courses, coursesNamed(bTerms, sel[1]))

\* C8: for every A-term gone through, the report entry compares it with
\* the B-term of exactly its name if there is one, else with the first
\* B-term in reference order of equal normalized name, else, if the A-term
\* has an ordinal, with the first B-term of that ordinal, else with an empty
\* term; the matched keys are exactly the B-terms so selected.  This holds
\* while the report is computed, and no later step changes what it is about.
matchedByPrecedence ==
    /\ \A i \in processed : comparedWith(i, selected(scrapedSems[i].name))
    /\ matchedSheetKeys = UNION {Range(selected(scrapedSems[i].name)) : i \in processed}

C8_MatchingPrecedence ==
  /\ [](~reportSettled => matchedByPrecedence)
  /\ [][SettledStep]_vars

\* rule 1 wins over an earlier B-term of equal normalized name, and rule 3
\* finds a B-term for an A-term no name or normalized name matches
C8_Witness ==
  /\ pc = "persist"
  /\ Len(scrapedSems) = 2 /\ Len(bTerms) = 2
  /\ scrapedSems[1].name = "Semester-2" /\ scrapedSems[2].name = "Semester2"
  /\ bTerms[1].name = "Semester II" /\ bTerms[2].name = "Semester-2"
  /\ report[1].validKey = "Semester-2"
  /\ report[2].validKey = "Semester-2"
  /\ normB("Semester2") = {} /\ ordB("Semester2") = {2}

\* the separators normalizeSemKey turns into blanks
SeparatorSet == DashSet \cup PunctSet \cup SpaceSet

romanWord(t) ==
  IF t \in {"i", "ii", "iii", "iv", "v"} THEN romanToInt(t) ELSE t

romanWords(toks) == [i \in 1..Len(toks) |-> romanWord(toks[i])]

\* a name read as its lower-case words, Roman numerals I-V as digits, where
\* any run of punctuation marks and white space separates two words
sepKey(n) == join(romanWords(splitRuns(toLowerCase(n), SeparatorSet)), " ")

\* a name read as its lower-case words, Roman numerals I-V as digits, where
\* the punctuation marks are deleted and only white space separates words
strippedKey(n) ==
  join(romanWords(splitRuns(replaceEach(toLowerCase(n), DashSet \cup PunctSet, ""),
                            SpaceSet)), " ")

readingTable == [n \in NameUniverse |-> [sep |-> sepKey(n), stripped |-> strippedKey(n)]]

\* the A-term at position i has been matched by rule 2
byRuleTwo(i) ==
  /\ exactB(scrapedSems[i].name) = {}
  /\ normB(scrapedSems[i].name) # {}
  /\ report[i].validKey = firstName(normB(scrapedSems[i].name))

extraInValid(name) ==
  \E n \in 1..Len(report) : report[n].name = "(extra in valid) " \o name

\* the A-term at position i is "Semester-2" and "Semester II" is the first
\* B-term of its normalized name, no B-term being named "Semester-2"
scenarioAt(i) ==
  /\ scrapedSems[i].name = "Semester-2"
  /\ exactB("Semester-2") = {}
  /\ \E j \in 1..Len(bTerms) :
       /\ bTerms[j].name = "Semester II"
       /\ \A o \in 1..(j - 1) : normOf(bTerms[o].name) # normOf("Semester II")

\* the two terms of the scenario are compared with each other and neither
\* is reported as unmatched
C9_Scenario ==
  \A i \in processed :
    scenarioAt(i) =>
      /\ normOf("Semester-2") = normOf("Semester II")
      /\ report[i].name = "Semester-2"
      /\ report[i].validKey = "Semester II"
      /\ report[i].diffs =
           runEngine(scrapedSems[i].courses, coursesNamed(bTerms, "Semester II"))
      /\ "Semester II" \in matchedSheetKeys
      /\ ~extraInValid("Semester II")

C10_UnmatchedATerm ==
  \A i \in processed :
    selected(scrapedSems[i].name) = <<>> =>
      /\ report[i].diffCount = Len(report[i].diffs)
      /\ \A n \in 1..Len(report[i].diffs) : report[i].diffs[n].type = "extra-in-fetched"
      /\ Len(report[i].diffs) = Cardinality(keysOf(scrapedSems[i].courses))
      /\ \A k \in keysOf(scrapedSems[i].courses) :
           \E n \in 1..Len(report[i].diffs) :
             /\ Key(report[i].diffs[n].course) = k
             /\ report[i].diffs[n].count = countOf(scrapedSems[i].courses, k)

\* an unmatched A-term with two courses of one fingerprint and a total row
C10_Witness ==
  \E i \in processed :
    /\ selected(scrapedSems[i].name) = <<>>
    /\ Len(scrapedSems[i].courses) = 3
    /\ Len(report[i].diffs) = 1
    /\ report[i].diffs[1].type = "extra-in-fetched"
    /\ report[i].diffs[1].count = 2
    /\ bTerms # <<>>

\* the names of the B-terms, each once, in the order of their first B-term
groupNames ==
  SelectIdx([j \in 1..Len(bTerms) |-> bTerms[j].name],
            {j \in 1..Len(bTerms) : \A o \in 1..(j - 1) : bTerms[o].name # bTerms[j].name})

\* the B-term names the three rules select for some A-term
matchedNames == UNION {Range(selected(scrapedSems[i].name)) : i \in 1..Len(scrapedSems)}

\* what comparing the B-terms of one name against an empty live term yields
againstEmpty(name) == runEngine(<<>>, coursesNamed(bTerms, name))

\* the names among groups that are not in matched and whose comparison
\* against an empty live term yields a diff, in reference order
reportedAmong(groups, matched) ==
  SelectIdx(groups,
            {g \in 1..Len(groups) :
               groups[g] \notin matched /\ againstEmpty(groups[g]) # <<>>})

\* the names of the B-terms matched by no A-term that are to be reported
reportedGroups == reportedAmong(groupNames, matchedNames)

\* the second loop of main() has run
extrasReported == pc \in {"persist", "email", "smtp", "exit", "done"} /\ inputsPresent

\* entry is the report entry of the unmatched B-terms of one name
unmatchedEntry(entry, name) ==
  /\ entry.name = "(extra in valid) " \o name
  /\ entry.validKey = name
  /\ entry.diffs = againstEmpty(name)
  /\ entry.diffCount = Len(entry.diffs)
  /\ \A n \in 1..Len(entry.diffs) : entry.diffs[n].type = "missing-in-fetched"

\* the report is the entries of the A-terms followed by those of groups
reportIs(groups, matched) ==
  /\ Len(report) = Len(scrapedSems) + Len(groups)
  /\ \A i \in 1..Len(scrapedSems) : report[i].name = scrapedSems[i].name
  /\ \A g \in 1..Len(groups) : unmatchedEntry(report[Len(scrapedSems) + g], groups[g])
  /\ \A j \in 1..Len(bTerms) :
       extraInValid(bTerms[j].name) <=>
         (/\ bTerms[j].name \notin matched
          /\ Compared(coursesNamed(bTerms, bTerms[j].name)) # {})

\* C11: the report holds one entry per A-term in Catalog-A order, followed
\* by one entry for each B-term (same-named B-terms counted as one group)
\* that no A-term matched, in reference order; such a B-term has an entry,
\* labelled "(extra in valid)", exactly when comparing it against an empty
\* live term yields at least one diff, and the entry holds those diffs, all
\* of them missing entries.  This holds when the second loop is over, and
\* no later step changes the report.
reportInOrder ==
  /\ pc = "match" =>
       /\ Len(report) = semIdx - 1
       /\ \A i \in processed : report[i].name = scrapedSems[i].name
  /\ pc = "persist" =>
       LET matched == matchedNames
           groups == reportedAmong(groupNames, matched)
       IN  reportIs(groups, matched)

C11_ReportOrder ==
  /\ []reportInOrder
  /\ [][SettledStep]_vars

\* an unmatched A-term, then of two unmatched B-terms the second only: the
\* first holds nothing but a total row
C11_Witness ==
  /\ extrasReported
  /\ Len(scrapedSems) = 1 /\ Len(bTerms) = 2
  /\ matchedNames = {}
  /\ bTerms[1].name = "Semester2" /\ againstEmpty("Semester2") = <<>>
  /\ Len(report) = 2
  /\ report[1].name = scrapedSems[1].name
  /\ report[2].name = "(extra in valid) " \o bTerms[2].name
  /\ report[2].diffs # <<>>

\* the B-term name selected for the A-term at position i is also selected
\* for another A-term gone through
sharedSelection(i, sel) ==
  /\ sel # <<>>
  /\ \E k \in processed \ {i} : selected(scrapedSems[k].name) = sel

\* the A-term at position i is aligned to the B-term named b and compared
\* with it on its own, and b is not reported as unmatched
alignedTo(i, b) ==
  /\ report[i].validKey = b
  /\ report[i].diffs = runEngine(scrapedSems[i].courses, coursesNamed(bTerms, b))
  /\ b \in matchedSheetKeys
  /\ extrasReported => ~extraInValid(b)

\* the law of C25 for the A-term at position i, sel being its selection
notReserved(i, sel) == sharedSelection(i, sel) => alignedTo(i, sel[1])

\* C25: a matched B-term is not reserved: when the three rules select the
\* same B-term for two A-terms, both are aligned to it, the B-term is
\* compared once with each of them, and it is not reported as unmatched; so
\* the alignment gives every A-term at most one B-term but need not be
\* injective.  This holds while the report is computed, and no later step
\* changes what it is about.
C25_NoReservation ==
  /\ [](~reportSettled => \A i \in processed : notReserved(i, selected(scrapedSems[i].name)))
  /\ [][SettledStep]_vars

\* "Semester-2" by its name and "Semester II" by its normalized name are
\* both aligned to the only B-term, "Semester-2"
C25_Witness ==
  /\ extrasReported
  /\ Len(scrapedSems) = 2 /\ Len(bTerms) = 1
  /\ scrapedSems[1].name = "Semester-2" /\ scrapedSems[2].name = "Semester II"
  /\ bTerms[1].name = "Semester-2"
  /\ report[1].validKey = "Semester-2" /\ report[2].validKey = "Semester-2"
  /\ Len(report) = 2

\* the report is computed: what is left is to persist and to deliver it
Delivering == pc \in {"persist", "email", "smtp", "exit"}

\* the exit status the diff entries of the report call for
statusOf(entries) == IF sumLens(entries) = 0 THEN <<0>> ELSE <<1>>

\* C14: once the report is computed, no step of persisting or delivering
\* it changes it, whatever the outcome of the file write, of the web3forms
\* request and of the SMTP fallback; the run goes on to its exit, and the exit
\* status is 0 when the report holds no diff entry and 1 otherwise.
C14_DeliveryFailure ==
  /\ [][Delivering =>
          /\ report' = report
          /\ totalDiffs' = totalDiffs
          /\ pc' = "done" => exitStatus' = statusOf(report)]_vars
  /\ Delivering ~> (pc = "done" /\ exitStatus = statusOf(report))

\* the file write failed, the web3forms request threw and SMTP failed
C14_Witness ==
  /\ pc = "done"
  /\ report # <<>>
  /\ reportFile = <<>>
  /\ mailPrimary = "threw"
  /\ mailSmtp = "failed"
  /\ exitStatus = <<1>>

\* the web3forms request has been made
mailed == mailPrimary # "none"

\* sendViaSmtpIfConfigured has been called
consulted == mailSmtp # "none"

\* the primary provider answered not OK or the request threw
primaryFailed == mailPrimary \in {"not-ok", "threw"}

\* what has been attempted so far agrees with the protocol
DeliveryState ==
  /\ mailed => (totalDiffs > 0 /\ pc \in {"smtp", "exit", "done"})
  /\ consulted => (primaryFailed /\ pc \in {"exit", "done"})
  /\ mailSmtp \in {"sent", "failed"} => smtpEnv = <<SmtpRequired>>
  /\ mailSmtp = "not-configured" =>
       (smtpEnv # <<>> /\ \E v \in SmtpRequired : v \notin smtpEnv[1])
  /\ (pc = "done" /\ inputsPresent) => (mailed <=> totalDiffs > 0)

\* a step of main() agrees with the protocol
DeliveryStep ==
  /\ (pc' = "email" /\ pc # "email") => pc = "persist"
  /\ mailPrimary' # mailPrimary => (pc = "email" /\ totalDiffs > 0 /\ ~mailed)
  /\ (pc = "email" /\ pc' # pc) => (mailPrimary' # "none" <=> totalDiffs > 0)
  /\ (pc' = "smtp" /\ pc # "smtp") => (pc = "email" /\ mailPrimary' \in {"not-ok", "threw"})
  /\ (mailSmtp' # mailSmtp \/ smtpEnv' # smtpEnv) =>
       (pc = "smtp" /\ primaryFailed /\ ~consulted)
  /\ exitStatus' # exitStatus =>
       /\ pc \notin {"persist", "email", "smtp"}
       /\ totalDiffs > 0 => (mailPrimary = "ok" \/ consulted)

\* C28: the e-mail is attempted exactly when the total diff count is
\* greater than zero, and only after the step that tries to persist the
\* report file; sendViaSmtpIfConfigured is called only after the primary
\* provider answered not OK or threw, and it sends only when SMTP_HOST,
\* SMTP_USER and SMTP_PASS are all set; the process exits only when no
\* delivery attempt is under way or still to come.
C28_DeliveryProtocol == []DeliveryState /\ [][DeliveryStep]_vars

\* the primary provider answered not OK and the configured SMTP fallback
\* sent the report
C28_Witness ==
  /\ pc = "done"
  /\ exitStatus = <<1>>
  /\ totalDiffs > 0
  /\ mailPrimary = "not-ok"
  /\ smtpEnv = <<SmtpRequired>>
  /\ mailSmtp = "sent"

\* nothing has been compared, written or sent
nothingDone ==
  /\ sheetMap = <<>> /\ report = <<>> /\ matchedSheetKeys = {} /\ totalDiffs = 0
  /\ reportFile = <<>>
  /\ ~mailed /\ ~consulted

\* a run in which an input file is missing
MissingState ==
  ~inputsPresent =>
    /\ pc \in {"start", "done"}
    /\ exitStatus = (IF pc = "done" THEN <<2>> ELSE <<>>)
    /\ nothingDone

\* C29: when the extracted catalog or the reference catalog is missing, the
\* only step of the run is the exit with status 2, and the run takes it:
\* no term is compared, no report file is written and no e-mail is attempted.
C29_MissingInput ==
  /\ []MissingState
  /\ [][~inputsPresent => (pc = "start" /\ pc' = "done" /\ exitStatus' = <<2>>)]_vars
  /\ (~inputsPresent) ~> (pc = "done" /\ exitStatus = <<2>> /\ nothingDone)

\* the reference catalog is missing, the extracted catalog is not
C29_Witness ==
  /\ scrapedFile # <<>> /\ scrapedFile[1].semesters # <<>>
  /\ sheetFile = <<>>
  /\ pc = "done"
  /\ exitStatus = <<2>>
  /\ nothingDone

\* the key of a reference term: its name, "(unknown)" without one
keyName(t) == IF Falsy(t.name) THEN "(unknown)" ELSE t.name

\* the keys of the reference terms, each once, in the order of its first term
firstKeys ==
  SelectIdx([j \in 1..Len(bTerms) |-> keyName(bTerms[j])],
            {j \in 1..Len(bTerms) :
               \A o \in 1..(j - 1) : keyName(bTerms[o]) # keyName(bTerms[j])})

\* the courses of all reference terms of one key, in reference order
RECURSIVE coursesKeyed(_, _)
coursesKeyed(terms, key) ==
  IF terms = <<>> THEN <<>>
  ELSE (IF keyName(Head(terms)) = key THEN Head(terms).courses ELSE <<>>)
       \o coursesKeyed(Tail(terms), key)

\* the sheet map holds one term per key with the courses of all its terms
mergedByKey(keys) ==
  /\ Len(sheetMap) = Len(keys)
  /\ \A i \in 1..Len(keys) :
       /\ sheetMap[i].key = keys[i]
       /\ sheetMap[i].name = keys[i]
       /\ sheetMap[i].courses = coursesKeyed(bTerms, keys[i])

\* the diff list reports every fingerprint that the live list and the
\* merged list hold with different multiplicities as a count-mismatch of
\* these multiplicities
countsReported(diffs, live, merged) ==
  \A k \in keysOf(live) \cap keysOf(merged) :
    countOf(live, k) # countOf(merged, k) =>
      \E n \in 1..Len(diffs) :
        /\ diffs[n].type = "count-mismatch"
        /\ Key(diffs[n].course) = k
        /\ diffs[n].fetchedCount = countOf(live, k)
        /\ diffs[n].validCount = countOf(merged, k)

finalExtraction ==
  IF semesters2 # <<>> THEN semesters2
  ELSE IF scPc = "done" /\ scExit = <<0>> THEN semesters
  ELSE <<>>

\* C7: a scraper run whose extraction ended with an empty term list ends
\* with a non-zero exit status, and data/courses.json never holds a catalog
\* with an empty term list.
C7_EmptyExtractionFails ==
  /\ (scPc = "done" /\ finalExtraction = <<(<<>>)>>) => scExit \notin {<<>>, <<0>>}
  /\ scrapedFile # <<>> => scrapedFile[1].semesters # <<>>

\* the rows parsed for each term before the duplicates are dropped: the three
\* strategies of extractSemesters without their dedup loops
rawSemestersAt(doc, pos) ==
  [k \in 1..Len(pos) |->
     [name |-> trim(doc[pos[k]].text), courses |-> sectionCourses(doc, pos[k] + 1)]]

rawStepB(sems, b) ==
  IF b.tag # "table" THEN sems
  ELSE IF ~isSemesterText(headText(b)) THEN sems
  ELSE IF hasName(sems, headText(b)) THEN sems
  ELSE Append(sems, [name |-> headText(b), courses |-> tableCoursesB(b)])

RECURSIVE rawMethodB(_, _, _)
rawMethodB(sems, doc, i) ==
  IF i > Len(doc) THEN sems ELSE rawMethodB(rawStepB(sems, doc[i]), doc, i + 1)

rawPushNumbered(sems, courses, hasTotal) ==
  IF courses # <<>> /\ hasTotal
  THEN Append(sems, [name |-> "Semester-" \o toString(Len(sems) + 1), courses |-> courses])
  ELSE sems

rawStepC(sems, rows) ==
  rawPushNumbered(sems, keepParsed(parseAllCells(withoutTotals(rows))), hasTotalRow(rows))

RECURSIVE rawMethodC(_, _, _)
rawMethodC(sems, doc, i) ==
  IF i > Len(doc) THEN sems
  ELSE rawMethodC(IF doc[i].tag # "table" THEN sems
                  ELSE rawStepC(sems, notBlank(allTrimmed(tableRows(doc[i])))),
                  doc, i + 1)

rawWhenEmpty(sems, doc) == IF sems = <<>> THEN rawMethodC(<<>>, doc, 1) ELSE sems

rawTable ==
  [d \in PageUniverse |->
     rawWhenEmpty(rawMethodB(rawSemestersAt(d, headingPositions(d)), d, 1), d)]

\* the (code, title) key of a course, an absent part read as empty
pairKey(c) == <<OrEmpty(c.code), OrEmpty(c.title)>>

\* of the rows of each key the first one, in the order of the rows
firstOfKey(cs) ==
  SelectIdx(cs, {i \in 1..Len(cs) : \A j \in 1..(i - 1) : pairKey(cs[j]) # pairKey(cs[i])})

\* the terms ext hold the rows raw with the dedup law applied
dedupLaw(ext, raw) ==
  /\ Len(ext) = Len(raw)
  /\ \A t \in 1..Len(ext) :
       /\ ext[t].name = raw[t].name
       /\ ext[t].courses = firstOfKey(raw[t].courses)
       /\ \A i, j \in 1..Len(ext[t].courses) :
            pairKey(ext[t].courses[i]) = pairKey(ext[t].courses[j]) => i = j

\* some term of ext lost a row of raw
droppedRow(ext, raw) ==
  \E t \in 1..Len(ext) : Len(ext[t].courses) < Len(raw[t].courses)

\* C12: in every term extractSemesters produces, by any of its three
\* strategies, no two courses have the same (code, title) key; of the parsed
\* rows of one key the term keeps the first, and the courses kept stand in
\* the order in which they were parsed.
C12_DedupLaw ==
  /\ semesters # <<>> => dedupLaw(semesters[1], rawTable[plainPage[1]])
  /\ semesters2 # <<>> => dedupLaw(semesters2[1], rawTable[renderedPage[1]])

\* a page of numbered tables and a page of semester headings, each with a
\* repeated row that was dropped
C12_Witness ==
  /\ semesters # <<>> /\ semesters2 # <<>>
  /\ plainPage[1] = NumberedPage /\ renderedPage[1] = HeadingsPage
  /\ droppedRow(semesters[1], rawTable[NumberedPage])
  /\ droppedRow(semesters2[1], rawTable[HeadingsPage])
  /\ semesters2[1][1].courses[1].serial = "1"

\* what the run has extracted from the fixture page so far
fixtureExtracted ==
  (IF semesters # <<>> /\ plainPage = <<FixturePage>> THEN {semesters[1]} ELSE {})
  \cup (IF semesters2 # <<>> /\ renderedPage = <<FixturePage>> THEN {semesters2[1]} ELSE {})

\* C13: the fixture page, one heading "Semester 1" followed by a table with
\* the rows 1 CS101 Programming Fundamentals 3 and 2 MT100 Calculus I 3 and
\* a Total row, is extracted to the single term "Semester 1" with exactly
\* two courses, each with a code, a title and credits and without a
\* prerequisite; the Total row is not a course of the term.
C13_Fixture ==
  \A ext \in fixtureExtracted :
    /\ Len(ext) = 1
    /\ ext[1].name = "Semester 1"
    /\ Len(ext[1].courses) = 2
    /\ \A n \in 1..Len(ext[1].courses) :
         /\ ext[1].courses[n].code # NULL
         /\ ext[1].courses[n].title # NULL
         /\ ext[1].courses[n].credits # NULL
         /\ ext[1].courses[n].prerequisite = NULL
         /\ ~includes(toLowerCase(OrEmpty(ext[1].courses[n].title)), "total")

\* the steps of the headless-browser fallback
InFallback == scPc \in {"launch", "parse2", "write2"}

\* this step is the plain attempt failing: the fetch failed or was answered
\* not OK, no term was extracted, or the write threw
PlainFailure ==
  \/ scPc = "fetch" /\ plainPage = <<>>
  \/ scPc = "parse" /\ semesters' = <<(<<>>)>>
  \/ scPc = "write" /\ scrapedFile' = scrapedFile

\* this step is the fallback failing: the browser did not deliver the page,
\* or the write threw
FallbackFailure ==
  \/ scPc = "launch" /\ renderedPage = <<>>
  \/ scPc = "write2" /\ scrapedFile' = scrapedFile

\* what every step of a run obeys
FallbackStep ==
  /\ (scPc' = "launch" /\ scPc # "launch") => PlainFailure
  /\ InFallback => scrapedFile = <<>>
  /\ (InFallback' /\ ~InFallback) => scPc' = "launch"
  /\ scrapedFile' # scrapedFile =>
       (scrapedFile = <<>> /\ scPc' = "done" /\ scExit' = <<0>>)
  /\ scPc # "done"
  /\ (InFallback /\ FallbackFailure) => (scPc' = "done" /\ scExit' = <<2>>)

\* C15: a run starts with the plain fetch-and-parse; a step enters the
\* fallback only as a failure of the plain attempt (fetch failed or not OK,
\* zero terms, or an exception), and never after the plain attempt has
\* written the catalog; the catalog file is written at most once, the run
\* ending with that write; and a fallback that fails (the browser or the
\* write throws) ends the run with status 2.
C15_FallbackOrder ==
  /\ scPc = "fetch" /\ scrapedFile = <<>>
  /\ [][FallbackStep]_vars

\* the plain attempt extracted no term, the fallback extracted some, and
\* its write threw
C15_Witness ==
  /\ scPc = "done"
  /\ plainPage # <<>> /\ semesters = <<(<<>>)>>
  /\ semesters2 # <<>> /\ semesters2[1] # <<>>
  /\ scrapedFile = <<>>
  /\ scExit = <<2>>

\* what the strategies yield on the pages of the model, computed once: the
\* heading-anchored terms, those and the header-named ones, and what the
\* numbered tables would yield were they asked
strategyTable ==
  [d \in PageUniverse |->
     [a |-> methodA(d), ab |-> methodB(methodA(d), d, 1), c |-> methodC(<<>>, d, 1)]]

\* the extractions the run has made so far, each with its page
extractions ==
  (IF semesters # <<>> THEN {[page |-> plainPage[1], sems |-> semesters[1]]} ELSE {})
  \cup (IF semesters2 # <<>> THEN {[page |-> renderedPage[1], sems |-> semesters2[1]]}
        ELSE {})

\* C21: when a page yields at least one heading-anchored or header-named
\* term, the extracted catalog is exactly those terms and holds none of the
\* numbered terms its tables with a Total row would yield; the numbered
\* terms are the catalog only when there is no other term.
C21_FallbackOnlyWhenEmpty ==
  \A x \in extractions :
    IF strategyTable[x.page].ab # <<>>
    THEN /\ x.sems = strategyTable[x.page].ab
         /\ \A n \in 1..Len(x.sems) : x.sems[n] \notin Range(strategyTable[x.page].c)
    ELSE x.sems = strategyTable[x.page].c

\* the page with semester headings has a table with a Total row, which
\* would make a numbered term
C21_Witness ==
  \E x \in extractions :
    /\ x.page = HeadingsPage
    /\ strategyTable[x.page].ab # <<>>
    /\ strategyTable[x.page].c # <<>>
    /\ Len(x.sems) = Len(strategyTable[x.page].ab)

\* the rows of a table that are not blank, every cell trimmed
filledRows(b) == notBlank(allTrimmed(tableRows(b)))

\* the row is a total row: its text holds "total" in any letter case
totalRow(cols) == includes(toLowerCase(join(cols, " ")), "total")

\* the parsed rows of a table that are no total rows and have a code or a
\* title
courseRows(b) ==
  SelectIdx(parseAllCells(filledRows(b)),
            {r \in 1..Len(filledRows(b)) :
               /\ ~totalRow(filledRows(b)[r])
               /\ hasCodeOrTitle(parseCourseFromCells(filledRows(b)[r]))})

\* block b is a table with a total row and a course row
qualifies(b) ==
  /\ b.tag = "table"
  /\ \E r \in 1..Len(filledRows(b)) : totalRow(filledRows(b)[r])
  /\ courseRows(b) # <<>>

\* the qualifying tables of a page in document order
qualifying(d) == SelectIdx(d, {n \in 1..Len(d) : qualifies(d[n])})

qualifyingTable == [d \in PageUniverse |-> qualifying(d)]

\* sems are the numbered terms of the tables q
numberedFrom(sems, q) ==
  /\ Len(sems) = Len(q)
  /\ \A k \in 1..Len(q) :
       /\ sems[k].name = "Semester-" \o toString(k)
       /\ sems[k].courses = firstOfKey(courseRows(q[k]))
       /\ \A n \in 1..Len(sems[k].courses) :
            /\ ~includes(toLowerCase(OrEmpty(sems[k].courses[n].code)), "total")
            /\ ~includes(toLowerCase(OrEmpty(sems[k].courses[n].title)), "total")

namesOf(sems) == {sems[n].name : n \in 1..Len(sems)}

\* the tables of a page whose first header cell names a semester that is
\* not the name of a heading-anchored term, in document order
headerNamed(d, a) ==
  SelectIdx(d, {n \in 1..Len(d) :
                  /\ d[n].tag = "table"
                  /\ isSemesterText(headText(d[n]))
                  /\ headText(d[n]) \notin namesOf(a)})

\* one term for each of the tables bs, named by its header
headerTerms(bs) ==
  [k \in 1..Len(bs) |->
     [name |-> headText(bs[k]), courses |-> firstOfKey(tableCoursesB(bs[k]))]]

headerTable ==
  [d \in PageUniverse |-> headerTerms(headerNamed(d, strategyTable[d].a))]

\* C23: the catalog of a page with heading-anchored or header-named terms
\* is the heading-anchored terms followed by one term for every table whose
\* first header cell names a semester and whose name is not that of a
\* heading-anchored term, in document order; two header-named tables are
\* both terms of the catalog unless a heading-anchored term has their name.
C23_HeaderNamedTables ==
  \A x \in extractions :
    strategyTable[x.page].ab # <<>> =>
      x.sems = strategyTable[x.page].a \o headerTable[x.page]

=============================================================================
